---- MODULE Spec2Model ----
(***************************************************************************)
(* Graph assembly and navigation engine of the Cultural DNA Map            *)
(* ("API Project/app.js").                                                 *)
(*                                                                         *)
(* A JavaScript string is a sequence of one-character strings, so that     *)
(* toLowerCase, trim, includes, replace and template concatenation are     *)
(* computed and not assumed.  The empty sequence is the empty string and   *)
(* also null/undefined (all are falsy in the source); Some(x) is a         *)
(* present optional value.                                                 *)
(***************************************************************************)
EXTENDS Integers, Sequences, FiniteSets, TLC

VARIABLES
  currentTrack,      \* let currentTrack (null or the selected track)
  currentTrackHTML,  \* let currentTrackHTML (null or the panel snapshot)
  wikiCache,         \* const wikiCache = new Map()
  graph,             \* what renderGraph last put on the render surface
  mapTitle,          \* text of #mapTitle
  infoTitle,         \* text of #infoTitle
  infoContent,       \* content of #infoContent (the detail panel)
  ops,               \* activations of async functions suspended at an await
  build,             \* history: the arguments of the latest graph build
  prevGraph,         \* history: the graph of the build before a rebuild
  last,              \* history: the async operation that completed last
  firstSel,          \* history: the first track selection that completed
  clicks,            \* number of user interactions so far
  hoverInfoDiv,      \* let hoverInfoDiv (null or the preview element)
  selection,         \* history: when the latest selection ran, and what was in flight
  failed,            \* history: the names whose summary lookup has returned null
  input,             \* the builder inputs drawn for SpecBuild
  tagRun,            \* state of the tag pipeline run (SpecTags)
  resolver           \* state of the taxonomy resolver run (SpecResolver)

vars == << currentTrack, currentTrackHTML, wikiCache, graph, mapTitle,
           infoTitle, infoContent, ops, build, prevGraph, last, firstSel,
           clicks, hoverInfoDiv, selection, failed, input, tagRun, resolver >>

navVars == << currentTrack, currentTrackHTML, wikiCache, infoTitle, infoContent,
             ops, last, firstSel, clicks, hoverInfoDiv, selection,
             failed >>
graphVars == << graph, mapTitle, build, prevGraph >>

-----------------------------------------------------------------------------
(* Characters that are not ASCII in the source. *)
EmDash == "<emdash>"
Arrow == "<arrow>"

null == << >>
Some(x) == << x >>
Min(a, b) == IF a < b THEN a ELSE b

(* String.prototype methods. *)
UPPERCASE == <<"A", "B", "C", "D", "E", "F", "G", "H", "I", "J", "K", "L", "M",
               "N", "O", "P", "Q", "R", "S", "T", "U", "V", "W", "X", "Y", "Z">>
LOWERCASE == <<"a", "b", "c", "d", "e", "f", "g", "h", "i", "j", "k", "l", "m",
               "n", "o", "p", "q", "r", "s", "t", "u", "v", "w", "x", "y", "z">>

toLowerChar(c) ==
  IF \E i \in 1..26 : UPPERCASE[i] = c
  THEN LOWERCASE[CHOOSE i \in 1..26 : UPPERCASE[i] = c]
  ELSE c

toLowerCase(s) == [i \in 1..Len(s) |-> toLowerChar(s[i])]

RECURSIVE trimStart(_)
trimStart(s) == IF s # << >> /\ Head(s) = " " THEN trimStart(Tail(s)) ELSE s

RECURSIVE trimEnd(_)
trimEnd(s) ==
  IF s # << >> /\ s[Len(s)] = " " THEN trimEnd(SubSeq(s, 1, Len(s) - 1)) ELSE s

trim(s) == trimEnd(trimStart(s))

includes(s, t) == \E i \in 0..(Len(s) - Len(t)) : SubSeq(s, i + 1, i + Len(t)) = t

RECURSIVE replaceAll(_, _, _)
replaceAll(s, c, r) ==
  IF s = << >> THEN << >>
  ELSE (IF Head(s) = c THEN r ELSE << Head(s) >>) \o replaceAll(Tail(s), c, r)

(* Array.prototype.slice(from, to) and Array.from(new Set(array)). *)
slice(s, from, to) == SubSeq(s, from + 1, Min(to, Len(s)))

RECURSIVE ArrayFromSetAcc(_, _)
ArrayFromSetAcc(s, acc) ==
  IF s = << >> THEN acc
  ELSE ArrayFromSetAcc(Tail(s),
         IF \E k \in 1..Len(acc) : acc[k] = Head(s) THEN acc ELSE Append(acc, Head(s)))

(* Array.from(new Set(array)) that keeps the last occurrence of a repeated value. *)
RECURSIVE ArrayFromSet_keepLast(_)
ArrayFromSet_keepLast(s) ==
  IF s = << >> THEN << >>
  ELSE IF \E i \in 2..Len(s) : s[i] = Head(s)
  THEN ArrayFromSet_keepLast(Tail(s))
  ELSE << Head(s) >> \o ArrayFromSet_keepLast(Tail(s))

ArrayFromSet(s) == ArrayFromSetAcc(s, << >>)

Elems(s) == { s[i] : i \in 1..Len(s) }

-----------------------------------------------------------------------------
(* String literals of the source. *)
STR_TRACK == <<"T", "R", "A", "C", "K", ":">>
STR_TAG == <<"T", "A", "G", ":">>
STR_GENRE == <<"G", "E", "N", "R", "E", ":">>
STR_SUBGENRE == <<"S", "U", "B", "G", "E", "N", "R", "E", ":">>
STR_SEP == <<" ", "-", " ">>
STR_DASH == <<" ", EmDash, " ">>
STR_ARROW == <<" ", Arrow, " ">>
STR_TRACK_TITLE == <<"T", "r", "a", "c", "k", ":", " ">>
STR_GENRE_TITLE == <<"G", "e", "n", "r", "e", ":", " ">>
STR_MUSIC_GENRES == <<" ", "m", "u", "s", "i", "c", " ", "g", "e", "n", "r", "e", "s">>
STR_MUSIC == <<" ", "m", "u", "s", "i", "c">>
STR_GENRES == <<" ", "g", "e", "n", "r", "e", "s">>
STR_UNKNOWN_ARTIST == <<"U", "n", "k", "n", "o", "w", "n", " ", "a", "r", "t", "i", "s", "t">>
STR_DNA_FOR == <<"C", "u", "l", "t", "u", "r", "a", "l", " ", "D", "N", "A", " ", "f", "o", "r", ":", " ">>
STR_DNA_MAP == <<"C", "u", "l", "t", "u", "r", "a", "l", " ", "D", "N", "A", " ", "M", "a", "p">>
STR_NO_NODES == <<"N", "o", " ", "g", "e", "n", "r", "e", " ", "n", "o", "d", "e", "s", " ", "t", "o", " ", "d", "i", "s", "p", "l", "a", "y">>
STR_NO_SUMMARY == <<"N", "o", " ", "s", "u", "m", "m", "a", "r", "y", " ", "f", "o", "u", "n", "d", ".">>

-----------------------------------------------------------------------------
(* Last.fm tag helpers. *)
LASTFM_BANNED_TAGS ==
  { <<"s", "e", "e", "n", " ", "l", "i", "v", "e">>,
    <<"f", "a", "v", "o", "r", "i", "t", "e", "s">>,
    <<"f", "a", "v", "o", "u", "r", "i", "t", "e", "s">>,
    <<"f", "a", "v", "o", "u", "r", "i", "t", "e">>,
    <<"l", "o", "v", "e">>,
    <<"u", "n", "d", "e", "r", " ", "2", "0", "0", "0", " ", "l", "i", "s", "t", "e", "n", "e", "r", "s">>,
    <<"u", "n", "d", "e", "r", " ", "1", "0", "0", " ", "l", "i", "s", "t", "e", "n", "e", "r", "s">>,
    <<"a", "m", "e", "r", "i", "c", "a", "n">>,
    <<"b", "r", "i", "t", "i", "s", "h">>,
    <<"u", "k">>,
    <<"u", "s", "a">>,
    <<"u", "n", "i", "t", "e", "d", " ", "s", "t", "a", "t", "e", "s">>,
    <<"c", "h", "i", "c", "a", "g", "o">>,
    <<"n", "e", "w", " ", "y", "o", "r", "k">>,
    <<"l", "o", "n", "d", "o", "n">>,
    <<"l", "o", "s", " ", "a", "n", "g", "e", "l", "e", "s">>,
    <<"o", "a", "k", "l", "a", "n", "d">>,
    <<"b", "r", "o", "o", "k", "l", "y", "n">>,
    <<"a", "t", "l", "a", "n", "t", "a">>,
    <<"a", "u", "s", "t", "i", "n">>,
    <<"n", "a", "s", "h", "v", "i", "l", "l", "e">>,
    <<"m", "e", "m", "p", "h", "i", "s">>,
    <<"s", "e", "a", "t", "t", "l", "e">>,
    <<"p", "o", "r", "t", "l", "a", "n", "d">>,
    <<"t", "o", "r", "o", "n", "t", "o">>,
    <<"v", "a", "n", "c", "o", "u", "v", "e", "r">>,
    <<"s", "y", "d", "n", "e", "y">>,
    <<"m", "e", "l", "b", "o", "u", "r", "n", "e">>,
    <<"b", "e", "r", "l", "i", "n">>,
    <<"p", "a", "r", "i", "s">>,
    <<"t", "o", "k", "y", "o">>,
    <<"m", "o", "s", "c", "o", "w">>,
    <<"m", "o", "s", "c", "o", "w", " ", "m", "e", "t", "a", "l">>,
    <<"7", "0", "s">>,
    <<"8", "0", "s">>,
    <<"9", "0", "s">>,
    <<"2", "0", "0", "0", "s">>,
    <<"1", "9", "7", "0", "s">>,
    <<"1", "9", "8", "0", "s">>,
    <<"1", "9", "9", "0", "s">>,
    <<"2", "0", "0", "0", "s">>,
    <<"e", "a", "r", "l", "y", " ", "2", "0", "0", "0", "s">>,
    <<"m", "a", "l", "e">>,
    <<"f", "e", "m", "a", "l", "e">>,
    <<"m", "a", "l", "e", " ", "v", "o", "c", "a", "l", "s">>,
    <<"f", "e", "m", "a", "l", "e", " ", "v", "o", "c", "a", "l", "s">>,
    <<"i", "n", "s", "t", "r", "u", "m", "e", "n", "t", "a", "l">>,
    <<"r", "e", "m", "i", "x">>,
    <<"c", "o", "v", "e", "r">>,
    <<"l", "i", "v", "e">>,
    <<"a", "c", "o", "u", "s", "t", "i", "c">>,
    <<"u", "n", "p", "l", "u", "g", "g", "e", "d">>,
    <<"o", "s", "t">>,
    <<"s", "o", "u", "n", "d", "t", "r", "a", "c", "k">>,
    <<"a", "n", "i", "m", "e">>,
    <<"v", "i", "d", "e", "o", " ", "g", "a", "m", "e">>,
    <<"g", "a", "m", "e">>,
    <<"f", "i", "l", "m">> }

normalizeTagName(name) == trim(toLowerCase(name))

(* Array.prototype.sort with (a, b) => b.count - a.count: stable, descending. *)
RECURSIVE insertByCount(_, _)
insertByCount(x, s) ==
  IF s = << >> THEN << x >>
  ELSE IF Head(s).count >= x.count
       THEN << Head(s) >> \o insertByCount(x, Tail(s))
       ELSE << x >> \o s

RECURSIVE sortByCountAcc(_, _)
sortByCountAcc(s, acc) ==
  IF s = << >> THEN acc ELSE sortByCountAcc(Tail(s), insertByCount(Head(s), acc))

sortByCountDesc(s) == sortByCountAcc(s, << >>)

isGenreTag(tag) == tag # << >> /\ tag \notin LASTFM_BANNED_TAGS

(* The provider's answer res is [status, tag]: status "ok" carries the list    *)
(* json.toptags.tag of [name, count]; "throw" is a rejected fetch or json(),   *)
(* "http" a response that is not ok, "error" a body with json.error.           *)
fetchArtistTopTags(artistName, res, limit) ==
  IF artistName = << >> THEN << >>
  ELSE IF res.status # "ok" THEN << >>
  ELSE LET top == slice(sortByCountDesc(res.tag), 0, limit)
           names == [i \in 1..Len(top) |-> normalizeTagName(top[i].name)]
       IN  SelectSeq(names, isGenreTag)

fetchTrackTopTags(artistName, trackName, res, limit) ==
  IF artistName = << >> \/ trackName = << >> THEN << >>
  ELSE IF res.status # "ok" THEN << >>
  ELSE LET top == slice(sortByCountDesc(res.tag), 0, limit)
           names == [i \in 1..Len(top) |-> normalizeTagName(top[i].name)]
       IN  SelectSeq(names, isGenreTag)

(* track.artistName || "Unknown artist" *)
artistOf(track) ==
  IF track.artistName # << >> THEN track.artistName ELSE STR_UNKNOWN_ARTIST

(* selectFilteredTags that drops only the tag equal to the artist name. *)
selectFilteredTags_equalOnly(artist, artistTags, trackTags) ==
  LET combinedTags == ArrayFromSet(artistTags \o trackTags)
      artistName == trim(toLowerCase(artist))
      keep(tag) == normalizeTagName(tag) # artistName
  IN  SelectSeq(combinedTags, keep)

(* onITunesTrackSelected: combinedTags and filteredTags. *)
selectFilteredTags(artist, artistTags, trackTags) ==
  LET combinedTags == ArrayFromSet(artistTags \o trackTags)
      artistName == trim(toLowerCase(artist))
      keep(tag) ==
        LET normalized == normalizeTagName(tag)
        IN  /\ normalized # artistName
            /\ ~includes(artistName, normalized)
            /\ ~includes(normalized, artistName)
  IN  SelectSeq(combinedTags, keep)

(* The back button's handler: combined and filtered. *)
backFilteredTags(artist, artistTags, trackTags) ==
  LET combined == ArrayFromSet(artistTags \o trackTags)
      artistName == trim(toLowerCase(artist))
      keep(tag) ==
        LET n == normalizeTagName(tag)
        IN  /\ n # << >>
            /\ n # artistName
            /\ ~includes(artistName, n)
            /\ ~includes(n, artistName)
            /\ n \notin LASTFM_BANNED_TAGS
  IN  SelectSeq(combined, keep)

(* onNodeClick, track branch: combined, handed to the builder as it is. *)
nodeClickTags(artistTags, trackTags) == ArrayFromSet(artistTags \o trackTags)

-----------------------------------------------------------------------------
(* Wikipedia tables. *)
GENRE_TO_WIKI_CATEGORY ==
  << <<<<"h", "i", "p", " ", "h", "o", "p">>, <<"H", "i", "p", " ", "h", "o", "p", " ", "m", "u", "s", "i", "c", " ", "g", "e", "n", "r", "e", "s">>>>,
     <<<<"h", "i", "p", "-", "h", "o", "p">>, <<"H", "i", "p", " ", "h", "o", "p", " ", "m", "u", "s", "i", "c", " ", "g", "e", "n", "r", "e", "s">>>>,
     <<<<"r", "a", "p">>, <<"H", "i", "p", " ", "h", "o", "p", " ", "m", "u", "s", "i", "c", " ", "g", "e", "n", "r", "e", "s">>>>,
     <<<<"t", "r", "a", "p">>, <<"H", "i", "p", " ", "h", "o", "p", " ", "m", "u", "s", "i", "c", " ", "g", "e", "n", "r", "e", "s">>>>,
     <<<<"b", "o", "o", "m", " ", "b", "a", "p">>, <<"H", "i", "p", " ", "h", "o", "p", " ", "m", "u", "s", "i", "c", " ", "g", "e", "n", "r", "e", "s">>>>,
     <<<<"d", "r", "i", "l", "l">>, <<"H", "i", "p", " ", "h", "o", "p", " ", "m", "u", "s", "i", "c", " ", "g", "e", "n", "r", "e", "s">>>>,
     <<<<"a", "l", "t", "e", "r", "n", "a", "t", "i", "v", "e", " ", "h", "i", "p", " ", "h", "o", "p">>, <<"H", "i", "p", " ", "h", "o", "p", " ", "m", "u", "s", "i", "c", " ", "g", "e", "n", "r", "e", "s">>>>,
     <<<<"e", "l", "e", "c", "t", "r", "o", "n", "i", "c">>, <<"E", "l", "e", "c", "t", "r", "o", "n", "i", "c", " ", "m", "u", "s", "i", "c", " ", "g", "e", "n", "r", "e", "s">>>>,
     <<<<"h", "o", "u", "s", "e">>, <<"H", "o", "u", "s", "e", " ", "m", "u", "s", "i", "c", " ", "g", "e", "n", "r", "e", "s">>>>,
     <<<<"t", "e", "c", "h", "n", "o">>, <<"T", "e", "c", "h", "n", "o">>>>,
     <<<<"t", "r", "a", "n", "c", "e">>, <<"T", "r", "a", "n", "c", "e", " ", "m", "u", "s", "i", "c">>>>,
     <<<<"d", "r", "u", "m", " ", "a", "n", "d", " ", "b", "a", "s", "s">>, <<"D", "r", "u", "m", " ", "a", "n", "d", " ", "b", "a", "s", "s">>>>,
     <<<<"d", "u", "b", "s", "t", "e", "p">>, <<"D", "u", "b", "s", "t", "e", "p">>>>,
     <<<<"u", "k", " ", "g", "a", "r", "a", "g", "e">>, <<"G", "a", "r", "a", "g", "e", " ", "m", "u", "s", "i", "c">>>>,
     <<<<"a", "m", "b", "i", "e", "n", "t">>, <<"A", "m", "b", "i", "e", "n", "t", " ", "m", "u", "s", "i", "c">>>>,
     <<<<"r", "o", "c", "k">>, <<"R", "o", "c", "k", " ", "m", "u", "s", "i", "c", " ", "g", "e", "n", "r", "e", "s">>>>,
     <<<<"a", "l", "t", "e", "r", "n", "a", "t", "i", "v", "e", " ", "r", "o", "c", "k">>, <<"A", "l", "t", "e", "r", "n", "a", "t", "i", "v", "e", " ", "r", "o", "c", "k">>>>,
     <<<<"i", "n", "d", "i", "e", " ", "r", "o", "c", "k">>, <<"I", "n", "d", "i", "e", " ", "r", "o", "c", "k">>>>,
     <<<<"p", "u", "n", "k", " ", "r", "o", "c", "k">>, <<"P", "u", "n", "k", " ", "r", "o", "c", "k">>>>,
     <<<<"p", "o", "s", "t", "-", "p", "u", "n", "k">>, <<"P", "o", "s", "t", "-", "p", "u", "n", "k">>>>,
     <<<<"m", "e", "t", "a", "l">>, <<"H", "e", "a", "v", "y", " ", "m", "e", "t", "a", "l", " ", "m", "u", "s", "i", "c">>>>,
     <<<<"h", "a", "r", "d", "c", "o", "r", "e", " ", "p", "u", "n", "k">>, <<"H", "a", "r", "d", "c", "o", "r", "e", " ", "p", "u", "n", "k">>>>,
     <<<<"p", "o", "p">>, <<"P", "o", "p", " ", "m", "u", "s", "i", "c", " ", "g", "e", "n", "r", "e", "s">>>>,
     <<<<"s", "y", "n", "t", "h", "p", "o", "p">>, <<"S", "y", "n", "t", "h", "p", "o", "p">>>>,
     <<<<"e", "l", "e", "c", "t", "r", "o", "p", "o", "p">>, <<"E", "l", "e", "c", "t", "r", "o", "p", "o", "p">>>>,
     <<<<"i", "n", "d", "i", "e", " ", "p", "o", "p">>, <<"I", "n", "d", "i", "e", " ", "p", "o", "p">>>>,
     <<<<"r", "&", "b">>, <<"R", "h", "y", "t", "h", "m", " ", "a", "n", "d", " ", "b", "l", "u", "e", "s", " ", "m", "u", "s", "i", "c", " ", "g", "e", "n", "r", "e", "s">>>>,
     <<<<"s", "o", "u", "l">>, <<"S", "o", "u", "l", " ", "m", "u", "s", "i", "c", " ", "g", "e", "n", "r", "e", "s">>>>,
     <<<<"n", "e", "o", "-", "s", "o", "u", "l">>, <<"S", "o", "u", "l", " ", "m", "u", "s", "i", "c", " ", "g", "e", "n", "r", "e", "s">>>>,
     <<<<"f", "u", "n", "k">>, <<"F", "u", "n", "k", " ", "m", "u", "s", "i", "c">>>>,
     <<<<"j", "a", "z", "z">>, <<"J", "a", "z", "z", " ", "g", "e", "n", "r", "e", "s">>>>,
     <<<<"b", "l", "u", "e", "s">>, <<"B", "l", "u", "e", "s", " ", "g", "e", "n", "r", "e", "s">>>>,
     <<<<"b", "e", "b", "o", "p">>, <<"B", "e", "b", "o", "p">>>>,
     <<<<"a", "f", "r", "o", "b", "e", "a", "t", "s">>, <<"A", "f", "r", "o", "b", "e", "a", "t", "s">>>>,
     <<<<"r", "e", "g", "g", "a", "e">>, <<"R", "e", "g", "g", "a", "e", " ", "m", "u", "s", "i", "c">>>>,
     <<<<"d", "a", "n", "c", "e", "h", "a", "l", "l">>, <<"D", "a", "n", "c", "e", "h", "a", "l", "l">>>>,
     <<<<"l", "a", "t", "i", "n">>, <<"L", "a", "t", "i", "n", " ", "m", "u", "s", "i", "c">>>>,
     <<<<"r", "e", "g", "g", "a", "e", "t", "o", "n">>, <<"R", "e", "g", "g", "a", "e", "t", "o", "n">>>>,
     <<<<"s", "a", "l", "s", "a">>, <<"S", "a", "l", "s", "a", " ", "m", "u", "s", "i", "c">>>>,
     <<<<"b", "o", "s", "s", "a", " ", "n", "o", "v", "a">>, <<"B", "o", "s", "s", "a", " ", "n", "o", "v", "a">>>>,
     <<<<"e", "x", "p", "e", "r", "i", "m", "e", "n", "t", "a", "l">>, <<"E", "x", "p", "e", "r", "i", "m", "e", "n", "t", "a", "l", " ", "m", "u", "s", "i", "c">>>>,
     <<<<"a", "v", "a", "n", "t", "-", "g", "a", "r", "d", "e">>, <<"A", "v", "a", "n", "t", "-", "g", "a", "r", "d", "e", " ", "m", "u", "s", "i", "c">>>>,
     <<<<"n", "o", "i", "s", "e">>, <<"N", "o", "i", "s", "e", " ", "m", "u", "s", "i", "c">>>>,
     <<<<"i", "n", "d", "u", "s", "t", "r", "i", "a", "l">>, <<"I", "n", "d", "u", "s", "t", "r", "i", "a", "l", " ", "m", "u", "s", "i", "c">>>>,
     <<<<"f", "o", "l", "k">>, <<"F", "o", "l", "k", " ", "m", "u", "s", "i", "c", " ", "g", "e", "n", "r", "e", "s">>>>,
     <<<<"s", "i", "n", "g", "e", "r", "-", "s", "o", "n", "g", "w", "r", "i", "t", "e", "r">>, <<"S", "i", "n", "g", "e", "r", "-", "s", "o", "n", "g", "w", "r", "i", "t", "e", "r", "s">>>>,
     <<<<"a", "m", "e", "r", "i", "c", "a", "n", "a">>, <<"A", "m", "e", "r", "i", "c", "a", "n", "a", " ", "m", "u", "s", "i", "c">>>>,
     <<<<"c", "l", "a", "s", "s", "i", "c", "a", "l">>, <<"C", "l", "a", "s", "s", "i", "c", "a", "l", " ", "m", "u", "s", "i", "c", " ", "g", "e", "n", "r", "e", "s">>>>,
     <<<<"c", "o", "n", "t", "e", "m", "p", "o", "r", "a", "r", "y", " ", "c", "l", "a", "s", "s", "i", "c", "a", "l">>, <<"C", "o", "n", "t", "e", "m", "p", "o", "r", "a", "r", "y", " ", "c", "l", "a", "s", "s", "i", "c", "a", "l", " ", "m", "u", "s", "i", "c">>>>,
     <<<<"f", "i", "l", "m", " ", "s", "c", "o", "r", "e">>, <<"F", "i", "l", "m", " ", "s", "c", "o", "r", "e">>>>,
     <<<<"h", "y", "p", "e", "r", "p", "o", "p">>, <<"H", "y", "p", "e", "r", "p", "o", "p">>>>,
     <<<<"b", "e", "d", "r", "o", "o", "m", " ", "p", "o", "p">>, <<"B", "e", "d", "r", "o", "o", "m", " ", "p", "o", "p">>>>,
     <<<<"v", "a", "p", "o", "r", "w", "a", "v", "e">>, <<"V", "a", "p", "o", "r", "w", "a", "v", "e">>>>,
     <<<<"g", "r", "u", "n", "g", "e">>, <<"G", "r", "u", "n", "g", "e">>>>,
     <<<<"s", "h", "o", "e", "g", "a", "z", "e">>, <<"S", "h", "o", "e", "g", "a", "z", "e">>>>,
     <<<<"e", "m", "o">>, <<"E", "m", "o", " ", "m", "u", "s", "i", "c">>>>,
     <<<<"g", "o", "t", "h", "i", "c", " ", "r", "o", "c", "k">>, <<"G", "o", "t", "h", "i", "c", " ", "r", "o", "c", "k">>>>,
     <<<<"p", "o", "s", "t", "-", "r", "o", "c", "k">>, <<"P", "o", "s", "t", "-", "r", "o", "c", "k">>>>,
     <<<<"c", "h", "i", "l", "l", "o", "u", "t">>, <<"C", "h", "i", "l", "l", "h", "o", "p">>>>,
     <<<<"l", "o", "-", "f", "i">>, <<"L", "o", "-", "f", "i", " ", "m", "u", "s", "i", "c">>>>,
     <<<<"w", "o", "r", "l", "d", " ", "m", "u", "s", "i", "c">>, <<"W", "o", "r", "l", "d", " ", "m", "u", "s", "i", "c">>>> >>

WIKI_ALIAS ==
  << <<<<"r", "a", "p">>, <<"h", "i", "p", " ", "h", "o", "p">>>>,
     <<<<"h", "i", "p", "-", "h", "o", "p">>, <<"h", "i", "p", " ", "h", "o", "p">>>>,
     <<<<"r", "&", "b">>, <<"r", "h", "y", "t", "h", "m", " ", "a", "n", "d", " ", "b", "l", "u", "e", "s">>>>,
     <<<<"e", "d", "m">>, <<"e", "l", "e", "c", "t", "r", "o", "n", "i", "c", " ", "d", "a", "n", "c", "e", " ", "m", "u", "s", "i", "c">>>> >>

(* obj[key]: the value of the first entry with that key, undefined otherwise. *)
lookup(table, key) ==
  IF \E i \in 1..Len(table) : table[i][1] = key
  THEN table[CHOOSE i \in 1..Len(table) : table[i][1] = key][2]
  ELSE << >>

-----------------------------------------------------------------------------
(* fetchSubgenresFromWikipedia. *)
nonEmpty(x) == x # << >>

(* variations with the alias-table category tried last. *)
variations_aliasLast(genreName) ==
  LET key == trim(toLowerCase(genreName))
      primaryTitle == lookup(GENRE_TO_WIKI_CATEGORY, key)
  IN  (IF includes(genreName, << " " >>)
       THEN << replaceAll(genreName, " ", << "-" >>),
               replaceAll(genreName, " ", << >>) >>
       ELSE << >>)
        \o (IF includes(genreName, << "-" >>)
            THEN << replaceAll(genreName, "-", << " " >>),
                    replaceAll(genreName, "-", << >>) >>
            ELSE << >>)
        \o << genreName \o STR_MUSIC_GENRES,
              genreName \o STR_MUSIC,
              genreName,
              genreName \o STR_GENRES >>
        \o << primaryTitle >>

(* variations that tries the raw name alone once its summary is cached. *)
variations_cacheAware(genreName) ==
  IF genreName \in DOMAIN wikiCache THEN << genreName >>
  ELSE variations_aliasLast(genreName)

(* The array variations, before .filter(Boolean). *)
variations(genreName) ==
  LET key == trim(toLowerCase(genreName))
      primaryTitle == lookup(GENRE_TO_WIKI_CATEGORY, key)
  IN  << primaryTitle >>
        \o (IF includes(genreName, << " " >>)
            THEN << replaceAll(genreName, " ", << "-" >>),
                    replaceAll(genreName, " ", << >>) >>
            ELSE << >>)
        \o (IF includes(genreName, << "-" >>)
            THEN << replaceAll(genreName, "-", << " " >>),
                    replaceAll(genreName, "-", << >>) >>
            ELSE << >>)
        \o << genreName \o STR_MUSIC_GENRES,
              genreName \o STR_MUSIC,
              genreName,
              genreName \o STR_GENRES >>

candidates(genreName) == SelectSeq(variations(genreName), nonEmpty)

(* titles of one answer: members.map((m) => m.title).filter(Boolean), and no   *)
(* titles when the fetch threw or the response was not ok.                     *)
categoryTitles(res) ==
  IF res.status = "ok" THEN SelectSeq(res.members, nonEmpty) ELSE << >>

(* subgenresStep without the try/catch around the fetch: a throw leaves the    *)
(* function.                                                                   *)
subgenresStep_noCatch(i, cands, res) ==
  LET titles == categoryTitles(res)
  IN  IF res.status = "throw"
      THEN [done |-> TRUE, threw |-> TRUE, i |-> i, result |-> << >>]
      ELSE IF Len(titles) > 0
      THEN [done |-> TRUE, threw |-> FALSE, i |-> i, result |-> titles]
      ELSE IF i < Len(cands)
      THEN [done |-> FALSE, threw |-> FALSE, i |-> i + 1, result |-> << >>]
      ELSE [done |-> TRUE, threw |-> FALSE, i |-> i, result |-> << >>]

(* One turn of the for loop over the candidates, at the answer to candidate i. *)
(* The body of the turn is inside try/catch: threw says whether an exception   *)
(* leaves the function.                                                        *)
subgenresStep(i, cands, res) ==
  LET titles == categoryTitles(res)
  IN  IF Len(titles) > 0
      THEN [done |-> TRUE, threw |-> FALSE, i |-> i, result |-> titles]
      ELSE IF i < Len(cands)
      THEN [done |-> FALSE, threw |-> FALSE, i |-> i + 1, result |-> << >>]
      ELSE [done |-> TRUE, threw |-> FALSE, i |-> i, result |-> << >>]

IdleResolver ==
  [pc |-> "idle", genreName |-> << >>, i |-> 0, queried |-> << >>,
   answers |-> << >>, result |-> << >>]

-----------------------------------------------------------------------------
(* Graph builders.  A build is [nodes, links, map]: the three locals of a      *)
(* builder call; map is the per-call identity map, keyed by node id.           *)
NewBuild == [nodes |-> << >>, links |-> << >>, map |-> << >>]

Node(id, label, type, isCentral, isContext, preserveTagColor, trackData) ==
  [id |-> id, label |-> label, type |-> type, isCentral |-> isCentral,
   isContext |-> isContext, preserveTagColor |-> preserveTagColor,
   trackData |-> trackData]

(* add without the map.has test. *)
add_noCheck(b, n) ==
  [b EXCEPT !.nodes = Append(@, n), !.map = @ @@ (n.id :> n)]

add(b, n) ==
  IF n.id \in DOMAIN b.map THEN b
  ELSE [b EXCEPT !.nodes = Append(@, n), !.map = @ @@ (n.id :> n)]

(* The value add returns: map.get(n.id). *)
addResult(b, n) == add(b, n).map[n.id]

pushLink(b, source, target) ==
  [b EXCEPT !.links = Append(@, [source |-> source, target |-> target])]

TAG_NODE_LIMIT == 12

trackCentralId(track) ==
  STR_TRACK \o (IF track.trackId # << >> THEN track.trackId
                ELSE track.trackName \o STR_SEP \o track.artistName)

RECURSIVE addTagNodes(_, _, _)
addTagNodes(b, centralId, uniq) ==
  IF uniq = << >> THEN b
  ELSE LET t == Head(uniq)
           id == STR_TAG \o t
           b1 == add(b, Node(id, t, "tag", FALSE, FALSE, FALSE, null))
       IN  addTagNodes(pushLink(b1, centralId, id), centralId, Tail(uniq))

(* buildTrackGenreGraph without the slice(0, 12). *)
buildTrackGenreGraph_noLimit(track, tags) ==
  LET centralId == trackCentralId(track)
      centralLabel == track.trackName \o STR_DASH \o track.artistName
      trackNode == Node(centralId, centralLabel, "track", TRUE, FALSE, FALSE, Some(track))
      uniq == ArrayFromSet(tags)
      b == addTagNodes(add(NewBuild, trackNode), centralId, uniq)
  IN  [nodes |-> b.nodes, links |-> b.links,
       title |-> STR_TRACK_TITLE \o track.trackName \o STR_DASH \o track.artistName]

(* buildTrackGenreGraph whose track node is marked as context as well. *)
buildTrackGenreGraph_contextCentral(track, tags) ==
  LET centralId == trackCentralId(track)
      centralLabel == track.trackName \o STR_DASH \o track.artistName
      trackNode == Node(centralId, centralLabel, "track", TRUE, TRUE, FALSE, Some(track))
      uniq == ArrayFromSet(slice(tags, 0, TAG_NODE_LIMIT))
      b == addTagNodes(add(NewBuild, trackNode), centralId, uniq)
  IN  [nodes |-> b.nodes, links |-> b.links,
       title |-> STR_TRACK_TITLE \o track.trackName \o STR_DASH \o track.artistName]

(* buildTrackGenreGraph that draws nothing for a track without tags. *)
buildTrackGenreGraph_emptyWithoutTags(track, tags) ==
  LET centralId == trackCentralId(track)
      centralLabel == track.trackName \o STR_DASH \o track.artistName
      trackNode == Node(centralId, centralLabel, "track", TRUE, FALSE, FALSE, Some(track))
      uniq == ArrayFromSet(slice(tags, 0, TAG_NODE_LIMIT))
      b == IF uniq = << >> THEN NewBuild
           ELSE addTagNodes(add(NewBuild, trackNode), centralId, uniq)
  IN  [nodes |-> b.nodes, links |-> b.links,
       title |-> STR_TRACK_TITLE \o track.trackName \o STR_DASH \o track.artistName]

(* buildTrackGenreGraph up to its renderGraph call: [nodes, links, title]. *)
buildTrackGenreGraph(track, tags) ==
  LET centralId == trackCentralId(track)
      centralLabel == track.trackName \o STR_DASH \o track.artistName
      trackNode == Node(centralId, centralLabel, "track", TRUE, FALSE, FALSE, Some(track))
      uniq == ArrayFromSet(slice(tags, 0, TAG_NODE_LIMIT))
      b == addTagNodes(add(NewBuild, trackNode), centralId, uniq)
  IN  [nodes |-> b.nodes, links |-> b.links,
       title |-> STR_TRACK_TITLE \o track.trackName \o STR_DASH \o track.artistName]

contextTrackId(sourceTrack) ==
  STR_TRACK \o (IF sourceTrack.trackId # << >> THEN sourceTrack.trackId
                ELSE sourceTrack.trackName \o STR_SEP \o sourceTrack.artistName)

(* genreFocusStart whose context link targets the id of the untrimmed name. *)
genreFocusStart_rawLink(genreName, sourceTrack, options) ==
  LET name == trim(genreName)
      withContext ==
        IF sourceTrack # null
        THEN LET src == sourceTrack[1]
                 trackId == contextTrackId(src)
                 trackLabel == src.trackName \o STR_DASH \o src.artistName
                 genreId == STR_GENRE \o genreName
             IN  pushLink(add(NewBuild,
                              Node(trackId, trackLabel, "track", FALSE, TRUE, FALSE,
                                   Some(src))),
                          trackId, genreId)
        ELSE NewBuild
      centralId == STR_GENRE \o name
      centralNode == Node(centralId, name, "genre", TRUE, FALSE,
                          options.preserveTagColor, null)
  IN  add(withContext, centralNode)

(* genreFocusStart whose context node is marked central as well. *)
genreFocusStart_centralContext(genreName, sourceTrack, options) ==
  LET name == trim(genreName)
      withContext ==
        IF sourceTrack # null
        THEN LET src == sourceTrack[1]
                 trackId == contextTrackId(src)
                 trackLabel == src.trackName \o STR_DASH \o src.artistName
                 genreId == STR_GENRE \o name
             IN  pushLink(add(NewBuild,
                              Node(trackId, trackLabel, "track", TRUE, TRUE, FALSE,
                                   Some(src))),
                          trackId, genreId)
        ELSE NewBuild
      centralId == STR_GENRE \o name
      centralNode == Node(centralId, name, "genre", TRUE, FALSE,
                          options.preserveTagColor, null)
  IN  add(withContext, centralNode)

(* buildGenreFocusGraph before its first await: context node and central node. *)
genreFocusStart(genreName, sourceTrack, options) ==
  LET name == trim(genreName)
      withContext ==
        IF sourceTrack # null
        THEN LET src == sourceTrack[1]
                 trackId == contextTrackId(src)
                 trackLabel == src.trackName \o STR_DASH \o src.artistName
                 genreId == STR_GENRE \o name
             IN  pushLink(add(NewBuild,
                              Node(trackId, trackLabel, "track", FALSE, TRUE, FALSE,
                                   Some(src))),
                          trackId, genreId)
        ELSE NewBuild
      centralId == STR_GENRE \o name
      centralNode == Node(centralId, name, "genre", TRUE, FALSE,
                          options.preserveTagColor, null)
  IN  add(withContext, centralNode)

(* addSubgenreNodes whose links run from the subgenre to the central node. *)
RECURSIVE addSubgenreNodes_reversed(_, _, _)
addSubgenreNodes_reversed(b, centralId, subgenres) ==
  IF subgenres = << >> THEN b
  ELSE LET title == Head(subgenres)
           sid == STR_SUBGENRE \o title
           b1 == add(b, Node(sid, title, "genre", FALSE, FALSE, FALSE, null))
       IN  addSubgenreNodes_reversed(pushLink(b1, sid, centralId), centralId,
                                     Tail(subgenres))

RECURSIVE addSubgenreNodes(_, _, _)
addSubgenreNodes(b, centralId, subgenres) ==
  IF subgenres = << >> THEN b
  ELSE LET title == Head(subgenres)
           sid == STR_SUBGENRE \o title
           b1 == add(b, Node(sid, title, "genre", FALSE, FALSE, FALSE, null))
       IN  addSubgenreNodes(pushLink(b1, centralId, sid), centralId, Tail(subgenres))

(* buildGenreFocusGraph from its locals to its renderGraph call, given what    *)
(* fetchSubgenresFromWikipedia returned: [nodes, links, title].                *)
buildGenreFocusGraph(genreName, sourceTrack, options, subgenres) ==
  LET name == trim(genreName)
      centralId == STR_GENRE \o name
      b == addSubgenreNodes(genreFocusStart(genreName, sourceTrack, options),
                            centralId, subgenres)
      titleText == IF sourceTrack # null
                   THEN sourceTrack[1].trackName \o STR_ARROW \o name
                   ELSE STR_GENRE_TITLE \o name
  IN  [nodes |-> b.nodes, links |-> b.links, title |-> titleText]

(* d.isPlaceholder as renderGraph reads it for data-placeholder: a property    *)
(* that is not set on the node is undefined, hence false.                      *)
dataPlaceholder(d) == IF "isPlaceholder" \in DOMAIN d THEN d.isPlaceholder ELSE FALSE

(* renderGraph: the title and what the render surface shows afterwards. *)
renderGraph(nodes, links, titleText) ==
  IF nodes = << >>
  THEN [graph |-> [nodes |-> << >>, links |-> << >>], mapTitle |-> STR_NO_NODES]
  ELSE [graph |-> [nodes |-> nodes, links |-> links],
        mapTitle |-> IF titleText # << >> THEN titleText ELSE STR_DNA_MAP]

-----------------------------------------------------------------------------
(* Bounded inputs. *)
MaxTagListLen == 3
MaxSubgenreListLen == 3

T1 == [trackId |-> <<"1">>,
       trackName |-> <<"S", "h", "u", "t", "d", "o", "w", "n">>,
       artistName |-> <<"S", "k", "e", "p", "t", "a">>]
T2 == [trackId |-> << >>,
       trackName |-> <<"T", "r", "a", "p", " ", "Q", "u", "e", "e", "n">>,
       artistName |-> <<"F", "e", "t", "t", "y", " ", "W", "a", "p">>]
Tracks == {T1, T2}

TAG_trap == <<"t", "r", "a", "p">>
TAG_grime == <<"g", "r", "i", "m", "e">>
TAG_uk_rap == <<"u", "k", " ", "r", "a", "p">>
NAME_jazz == <<"j", "a", "z", "z">>
NAME_hip_hop == <<"h", "i", "p", "-", "h", "o", "p">>
NAME_trap_padded == <<" ", "t", "r", "a", "p", " ">>
TITLE_Bebop == <<"B", "e", "b", "o", "p">>
TITLE_Cool_jazz == <<"C", "o", "o", "l", " ", "j", "a", "z", "z">>

SeqsUpTo(S, n) == UNION { [1..k -> S] : k \in 0..n }

(* Fourteen distinct tags, and fourteen with a repeat among the first twelve. *)
LongTagList == [i \in 1..14 |-> <<"x", LOWERCASE[i]>>]
LongTagListRepeat == [i \in 1..14 |-> <<"x", LOWERCASE[IF i = 12 THEN 1 ELSE i]>>]

TagLists ==
  SeqsUpTo({TAG_trap, TAG_grime, TAG_uk_rap}, MaxTagListLen)
    \cup {LongTagList, LongTagListRepeat}

GenreNames == {NAME_jazz, NAME_hip_hop, NAME_trap_padded}
SubgenreLists == SeqsUpTo({TITLE_Bebop, TITLE_Cool_jazz, NAME_jazz}, MaxSubgenreListLen)
OptionSets == { [preserveTagColor |-> p] : p \in BOOLEAN }

-----------------------------------------------------------------------------
(* State after the script has loaded and DOMContentLoaded has run. *)
NoBuild ==
  [fn |-> "none", track |-> null, tags |-> << >>, genreName |-> << >>,
   sourceTrack |-> null, options |-> [preserveTagColor |-> FALSE],
   subgenres |-> << >>]

TrackBuild(track, tags) ==
  [NoBuild EXCEPT !.fn = "track", !.track = Some(track), !.tags = tags]

GenreBuild(genreName, sourceTrack, options, subgenres) ==
  [NoBuild EXCEPT !.fn = "genre", !.genreName = genreName,
                  !.sourceTrack = sourceTrack, !.options = options,
                  !.subgenres = subgenres]

NoSelection == [at |-> 0, inFlight |-> << >>]

NoResponse == [status |-> "throw", tag |-> << >>]

(* The detail panel: what its innerHTML shows (kind, track, title, extract,     *)
(* url, missing, back, chips), whether the back button has its listener, and   *)
(* the content of the hover preview element while it is a child of the panel.  *)
InitialPanel ==
  [kind |-> "initial", track |-> null, title |-> << >>, extract |-> << >>,
   url |-> << >>, missing |-> FALSE, back |-> FALSE, wired |-> FALSE,
   chips |-> << >>, hover |-> null]

NoLast ==
  [kind |-> "none", pc |-> "none", track |-> null, genreName |-> << >>, sourceTrack |-> null,
   subgenres |-> << >>, artistRes |-> NoResponse, trackRes |-> NoResponse,
   tags |-> << >>, wiki |-> null, queried |-> << >>, node |-> << >>,
   after |-> "none"]

IdleTagRun ==
  [pc |-> "idle", track |-> null, artistRes |-> NoResponse, trackRes |-> NoResponse,
   artistTags |-> << >>, trackTags |-> << >>, filteredTags |-> << >>]


InitState ==
  /\ currentTrack = null
  /\ currentTrackHTML = null
  /\ wikiCache = << >>
  /\ graph = [nodes |-> << >>, links |-> << >>]
  /\ mapTitle = << >>
  /\ infoTitle = << >>
  /\ infoContent = InitialPanel
  /\ ops = << >>
  /\ build = NoBuild
  /\ prevGraph = null
  /\ last = NoLast
  /\ firstSel = null
  /\ clicks = 0
  /\ hoverInfoDiv = null
  /\ selection = NoSelection
  /\ failed = {}

Init ==
  /\ InitState
  /\ input = NoBuild
  /\ tagRun = IdleTagRun
  /\ resolver = IdleResolver

(* A builder's call of renderGraph, with the history of the build's inputs. *)
Render(newBuild, g) ==
  LET r == renderGraph(g.nodes, g.links, g.title)
  IN  /\ graph' = r.graph
      /\ mapTitle' = r.mapTitle
      /\ build' = newBuild
      /\ prevGraph' = IF newBuild = build THEN Some(graph) ELSE null

-----------------------------------------------------------------------------
(* fetchGenreSummaryFromWikipedia and the detail panel. *)
(* tryTitles *)
summaryTitles(genreName) ==
  LET normalized == trim(toLowerCase(genreName))
      alias == lookup(WIKI_ALIAS, normalized)
      aliasedName == IF alias # << >> THEN alias ELSE genreName
  IN  << aliasedName \o STR_MUSIC, aliasedName >>

(* The provider's answer res is [status, title, extract, url]: status "ok"     *)
(* carries the fields of the json body, "throw" is a rejected fetch or json(), *)
(* "http" a response that is not ok.                                           *)
summaryPayload(res) == [title |-> res.title, extract |-> res.extract, url |-> res.url]

(* One turn of the for loop over tryTitles, at the answer to title j. *)
summaryStep(j, titles, res) ==
  IF res.status = "ok" THEN [done |-> TRUE, j |-> j, wiki |-> Some(summaryPayload(res))]
  ELSE IF j < Len(titles) THEN [done |-> FALSE, j |-> j + 1, wiki |-> null]
  ELSE [done |-> TRUE, j |-> j, wiki |-> null]

(* wikiCache.set(key, value) *)
cacheSet(cache, key, value) == (key :> value) @@ cache

trackInfoPanel(track) ==
  [InitialPanel EXCEPT !.kind = "trackInfo", !.track = Some(track)]

trackNodePanel(t) ==
  [InitialPanel EXCEPT !.kind = "trackNode", !.track = Some(t)]

loadingPanel == [InitialPanel EXCEPT !.kind = "loading"]

STR_music == <<"m", "u", "s", "i", "c">>
STR_genre == <<"g", "e", "n", "r", "e">>

isMusicRelated(wiki) ==
  /\ wiki # null
  /\ \/ /\ wiki[1].title # << >>
        /\ \/ includes(toLowerCase(wiki[1].title), STR_music)
           \/ includes(toLowerCase(wiki[1].title), STR_genre)
     \/ /\ wiki[1].extract # << >>
        /\ \/ includes(toLowerCase(wiki[1].extract), STR_music)
           \/ includes(toLowerCase(wiki[1].extract), STR_genre)

(* genreSummaryPanel that leaves the summary text empty when no page is found. *)
genreSummaryPanel_noFallback(name, wiki, subgenres, track, trackHTML) ==
  [InitialPanel EXCEPT
     !.kind = "summary",
     !.title = IF wiki # null /\ wiki[1].title # << >> THEN wiki[1].title ELSE name,
     !.extract = IF wiki # null THEN wiki[1].extract ELSE << >>,
     !.url = IF wiki # null THEN wiki[1].url ELSE << >>,
     !.missing = (Len(subgenres) = 0 /\ isMusicRelated(wiki)),
     !.back = (track # null),
     !.wired = (track # null /\ trackHTML # null)]

(* The final panel of buildGenreFocusGraph: wikiSection, the missing-category  *)
(* note, and the back button with its listener.                                *)
genreSummaryPanel(name, wiki, subgenres, track, trackHTML) ==
  [InitialPanel EXCEPT
     !.kind = "summary",
     !.title = IF wiki # null /\ wiki[1].title # << >> THEN wiki[1].title ELSE name,
     !.extract = IF wiki # null /\ wiki[1].extract # << >> THEN wiki[1].extract
                 ELSE STR_NO_SUMMARY,
     !.url = IF wiki # null THEN wiki[1].url ELSE << >>,
     !.missing = (Len(subgenres) = 0 /\ isMusicRelated(wiki)),
     !.back = (track # null),
     !.wired = (track # null /\ trackHTML # null)]

(* The final panel of onGenreChipClick. *)
chipSummaryPanel(genreName, wiki) ==
  [InitialPanel EXCEPT
     !.kind = "summary",
     !.title = IF wiki # null /\ wiki[1].title # << >> THEN wiki[1].title ELSE genreName,
     !.extract = IF wiki # null /\ wiki[1].extract # << >> THEN wiki[1].extract
                 ELSE STR_NO_SUMMARY,
     !.url = IF wiki # null THEN wiki[1].url ELSE << >>]

(* renderGenreChips: the chip row replaces any earlier one in the panel. *)
renderGenreChips(panel, canonicalGenres) == [panel EXCEPT !.chips = canonicalGenres]

(* infoContent.innerHTML read: the markup, without listeners. *)
innerHTML(panel) == [panel EXCEPT !.wired = FALSE]

-----------------------------------------------------------------------------
(* The builders as functions of their inputs: the initial state draws a track  *)
(* and a tag list, or a genre name, a context track, an option set and a       *)
(* resolver result; the actions build (and build again) from them.             *)
BuilderInputs ==
  { TrackBuild(track, tags) : track \in Tracks, tags \in TagLists }
    \cup { GenreBuild(bi[1], bi[2], bi[3], bi[4]) :
             bi \in GenreNames \X ({null} \cup { Some(t) : t \in Tracks })
                      \X OptionSets \X SubgenreLists }

InitBuild ==
  /\ InitState
  /\ input \in BuilderInputs
  /\ tagRun = IdleTagRun
  /\ resolver = IdleResolver

BuildTrack ==
  /\ input.fn = "track"
  /\ Render(input, buildTrackGenreGraph(input.track[1], input.tags))
  /\ UNCHANGED << navVars, input, tagRun, resolver >>

BuildGenre ==
  /\ input.fn = "genre"
  /\ Render(input, buildGenreFocusGraph(input.genreName, input.sourceTrack,
                                        input.options, input.subgenres))
  /\ UNCHANGED << navVars, input, tagRun, resolver >>

NextBuild == BuildTrack \/ BuildGenre

SpecBuild == InitBuild /\ [][NextBuild]_vars

-----------------------------------------------------------------------------
(* The tag pipeline of onITunesTrackSelected as a function of the track and    *)
(* of the two provider answers.                                                *)
FETCH_LIMIT == 12

Item(name, count) == [name |-> name, count |-> count]
Ok(tag) == [status |-> "ok", tag |-> tag]
RES_throw == [status |-> "throw", tag |-> << >>]
RES_http == [status |-> "http", tag |-> << >>]
RES_error == [status |-> "error", tag |-> << >>]
(* A body whose tag list holds an entry that is not an object: reading its     *)
(* count or name throws inside the adapter's try block.                        *)
RES_malformed == [status |-> "malformed", tag |-> << >>]
RES_example ==
  Ok(<< Item(<<"S", "e", "e", "n", " ", "l", "i", "v", "e">>, 5),
        Item(<<"U", "K">>, 4),
        Item(<<"9", "0", "s">>, 3),
        Item(<<"T", "r", "a", "p">>, 2),
        Item(<<"S", "K", "E", "P", "T", "A">>, 1) >>)
RES_shutdown ==
  Ok(<< Item(<<"g", "r", "i", "m", "e">>, 50),
        Item(<<"u", "k", " ", "r", "a", "p">>, 30),
        Item(<<"s", "e", "e", "n", " ", "l", "i", "v", "e">>, 10) >>)
RES_unsorted ==
  Ok(<< Item(<<" ", "T", "r", "a", "p", " ">>, 1),
        Item(<<"S", "k", "e", "p", "t", "a", " ", "U", "K">>, 7),
        Item(<<"t", "r", "a", "p">>, 3),
        Item(<< >>, 9),
        Item(<<"G", "r", "i", "m", "e">>, 3),
        Item(<<"f", "e", "t", "t", "y", " ", "w", "a", "p">>, 2) >>)
(* Thirteen tags by ascending count, and thirteen with equal counts. *)
RES_ascending == Ok([i \in 1..13 |-> Item(<<"x", LOWERCASE[i]>>, i)])
RES_ties == Ok([i \in 1..13 |-> Item(<<"y", LOWERCASE[i]>>, 7)])

MaxResponseLen == 2
ResponseItems ==
  { Item(<<"T", "r", "a", "p">>, 2),
    Item(<<"S", "K", "E", "P", "T", "A">>, 1),
    Item(<<"u", "k", " ", "r", "a", "p">>, 2),
    Item(<<"U", "K">>, 3) }

TagResponses ==
  { RES_throw, RES_http, RES_error, RES_malformed, RES_example, RES_shutdown, RES_unsorted,
    RES_ascending, RES_ties }
    \cup { Ok(tag) : tag \in SeqsUpTo(ResponseItems, MaxResponseLen) }

InitTags ==
  /\ InitState
  /\ input = NoBuild
  /\ tagRun \in { [IdleTagRun EXCEPT !.pc = "drawn", !.track = Some(t),
                                     !.artistRes = a, !.trackRes = r] :
                     t \in Tracks, a \in TagResponses, r \in TagResponses }
  /\ resolver = IdleResolver

(* SelectTags that returns without drawing when no tag is left. *)
SelectTags_skipEmpty ==
  /\ tagRun.pc = "drawn"
  /\ LET track == tagRun.track[1]
         artist == artistOf(track)
         artistTags == fetchArtistTopTags(artist, tagRun.artistRes, FETCH_LIMIT)
         trackTags == fetchTrackTopTags(artist, track.trackName, tagRun.trackRes,
                                        FETCH_LIMIT)
         filteredTags == selectFilteredTags(artist, artistTags, trackTags)
     IN  /\ tagRun' = [tagRun EXCEPT !.pc = "done", !.artistTags = artistTags,
                                     !.trackTags = trackTags,
                                     !.filteredTags = filteredTags]
         /\ infoContent' = IF Len(filteredTags) > 0
                           THEN renderGenreChips(infoContent, filteredTags)
                           ELSE infoContent
         /\ IF filteredTags = << >> THEN UNCHANGED graphVars
            ELSE Render(TrackBuild(track, filteredTags),
                        buildTrackGenreGraph(track, filteredTags))
  /\ UNCHANGED << currentTrack, currentTrackHTML, wikiCache, infoTitle, ops, last,
                  firstSel, clicks, hoverInfoDiv, selection, failed, input, resolver >>

(* Lines 1026-1048 of onITunesTrackSelected: both fetches, the merge, the      *)
(* artist-name filter, the chips and the build of the Track view.              *)
SelectTags ==
  /\ tagRun.pc = "drawn"
  /\ LET track == tagRun.track[1]
         artist == artistOf(track)
         artistTags == fetchArtistTopTags(artist, tagRun.artistRes, FETCH_LIMIT)
         trackTags == fetchTrackTopTags(artist, track.trackName, tagRun.trackRes,
                                        FETCH_LIMIT)
         filteredTags == selectFilteredTags(artist, artistTags, trackTags)
     IN  /\ tagRun' = [tagRun EXCEPT !.pc = "done", !.artistTags = artistTags,
                                     !.trackTags = trackTags,
                                     !.filteredTags = filteredTags]
         /\ infoContent' = IF Len(filteredTags) > 0
                           THEN renderGenreChips(infoContent, filteredTags)
                           ELSE infoContent
         /\ Render(TrackBuild(track, filteredTags),
                   buildTrackGenreGraph(track, filteredTags))
  /\ UNCHANGED << currentTrack, currentTrackHTML, wikiCache, infoTitle, ops, last,
                  firstSel, clicks, hoverInfoDiv, selection, failed, input, resolver >>

NextTags == SelectTags

SpecTags == InitTags /\ [][NextTags]_vars

-----------------------------------------------------------------------------
(* The tag join of onITunesTrackSelected as a process: Promise.all calls both  *)
(* adapters, each runs to its fetch, and the two answers arrive in either      *)
(* order.  tagRun gets pending (the calls in flight) and order (the calls in   *)
(* the order they resolved).                                                   *)
JoinCalls == {"artist", "track"}

(* The continuation after Promise.all that merges in the order of arrival. *)
JoinResolved_arrivalOrder(run) ==
  LET artist == artistOf(run.track[1])
  IN  [run EXCEPT !.pc = "done",
                  !.filteredTags =
                     IF run.order[1] = "artist"
                     THEN selectFilteredTags(artist, run.artistTags, run.trackTags)
                     ELSE selectFilteredTags(artist, run.trackTags, run.artistTags)]

(* The continuation after Promise.all: [artistTags, trackTags] by position,    *)
(* merge and artist-name filter.                                               *)
JoinResolved(run) ==
  [run EXCEPT !.pc = "done",
              !.filteredTags = selectFilteredTags(artistOf(run.track[1]),
                                                  run.artistTags, run.trackTags)]

(* An adapter has returned: the join goes on when the other one has too. *)
JoinSettle(got) ==
  IF got.pending = {}
  THEN LET final == JoinResolved(got)
       IN  /\ tagRun' = final
           /\ Render(TrackBuild(final.track[1], final.filteredTags),
                     buildTrackGenreGraph(final.track[1], final.filteredTags))
  ELSE /\ tagRun' = got
       /\ UNCHANGED graphVars

(* Promise.all([fetchArtistTopTags(...), fetchTrackTopTags(...)]): both calls  *)
(* run to their fetch before the await.                                        *)
JoinCall ==
  /\ tagRun.pc = "drawn"
  /\ tagRun' = [pc |-> "await", track |-> tagRun.track,
                artistRes |-> tagRun.artistRes, trackRes |-> tagRun.trackRes,
                artistTags |-> << >>, trackTags |-> << >>, filteredTags |-> << >>,
                pending |-> JoinCalls, order |-> << >>]
  /\ UNCHANGED << navVars, graphVars, input, resolver >>

JoinArtistAnswer ==
  /\ tagRun.pc = "await"
  /\ "artist" \in tagRun.pending
  /\ JoinSettle([tagRun EXCEPT
                   !.artistTags = fetchArtistTopTags(artistOf(tagRun.track[1]),
                                                     tagRun.artistRes, FETCH_LIMIT),
                   !.pending = @ \ {"artist"},
                   !.order = Append(@, "artist")])
  /\ UNCHANGED << navVars, input, resolver >>

JoinTrackAnswer ==
  /\ tagRun.pc = "await"
  /\ "track" \in tagRun.pending
  /\ JoinSettle([tagRun EXCEPT
                   !.trackTags = fetchTrackTopTags(artistOf(tagRun.track[1]),
                                                   tagRun.track[1].trackName,
                                                   tagRun.trackRes, FETCH_LIMIT),
                   !.pending = @ \ {"track"},
                   !.order = Append(@, "track")])
  /\ UNCHANGED << navVars, input, resolver >>

NextJoin == JoinCall \/ JoinArtistAnswer \/ JoinTrackAnswer

SpecJoin == InitTags /\ [][NextJoin]_vars

-----------------------------------------------------------------------------
(* fetchSubgenresFromWikipedia as a process: one category query in flight at   *)
(* a time.  A provider answer res is [status, members]: status "ok" carries    *)
(* the titles of json.query.categorymembers (an empty title stands for a       *)
(* member without one); "throw" is a rejected fetch or json(), "http" a        *)
(* response that is not ok.                                                    *)
NAME_uk_garage == <<"u", "k", " ", "g", "a", "r", "a", "g", "e">>
NAME_Neo_Soul == <<"N", "e", "o", "-", "S", "o", "u", "l">>
TITLE_Trap_music == <<"T", "r", "a", "p", " ", "m", "u", "s", "i", "c">>
TITLE_Drill_music == <<"D", "r", "i", "l", "l", " ", "m", "u", "s", "i", "c">>

NAME_empty == << >>
(* A page title as a genre node's label carries it. *)
NAME_Jazz == <<"J", "a", "z", "z">>
ResolverNames ==
  {NAME_hip_hop, NAME_uk_garage, NAME_Neo_Soul, TAG_grime, NAME_jazz, NAME_Jazz,
   NAME_empty}

CAT_throw == [status |-> "throw", members |-> << >>]
CAT_http == [status |-> "http", members |-> << >>]
CAT_empty == [status |-> "ok", members |-> << >>]
CAT_untitled == [status |-> "ok", members |-> << << >> >>]
CAT_two == [status |-> "ok", members |-> << TITLE_Trap_music, TITLE_Drill_music >>]
CAT_mixed == [status |-> "ok", members |-> << TITLE_Bebop, << >>, TITLE_Bebop >>]
CategoryResponses ==
  {CAT_throw, CAT_http, CAT_empty, CAT_untitled, CAT_two, CAT_mixed}

InitResolver ==
  /\ InitState
  /\ input = NoBuild
  /\ tagRun = IdleTagRun
  /\ resolver \in { [IdleResolver EXCEPT !.pc = "drawn", !.genreName = g] :
                       g \in ResolverNames }

(* The call: an empty name returns [] at once; otherwise the candidate list is *)
(* built and the first query is issued.                                        *)
ResolverCall ==
  /\ resolver.pc = "drawn"
  /\ LET cands == candidates(resolver.genreName)
     IN  resolver' = IF resolver.genreName = << >>
                     THEN [resolver EXCEPT !.pc = "done", !.result = << >>]
                     ELSE [resolver EXCEPT !.pc = "await", !.i = 1,
                                           !.queried = << cands[1] >>]
  /\ UNCHANGED << navVars, graphVars, input, tagRun >>

(* The query in flight is answered: return its titles, or issue the next. *)
ResolverAnswer ==
  /\ resolver.pc = "await"
  /\ \E res \in CategoryResponses :
       LET cands == candidates(resolver.genreName)
           step == subgenresStep(resolver.i, cands, res)
       IN  resolver' =
             [resolver EXCEPT
                !.pc = IF step.threw THEN "threw"
                       ELSE IF step.done THEN "done" ELSE "await",
                !.i = step.i,
                !.answers = Append(@, res),
                !.queried = IF step.done THEN @ ELSE Append(@, cands[step.i]),
                !.result = step.result]
  /\ UNCHANGED << navVars, graphVars, input, tagRun >>

NextResolver == ResolverCall \/ ResolverAnswer

SpecResolver == InitResolver /\ [][NextResolver]_vars

-----------------------------------------------------------------------------
(* The navigation machine: user interactions and the continuations of the      *)
(* async functions they start.  An entry of ops is one activation suspended    *)
(* at an await; the entries stand in the order the activations were started.   *)
(* last is the activation that ran to an await of a lookup answer or to its    *)
(* return in the step just taken, with where it stands (pc); for the return of *)
(* the back listener, after says whether the step before was its click.        *)
(* A lookup that touches no program state while it runs (the candidate loop    *)
(* of the resolver, the title loop of the summary lookup after its cache       *)
(* check, the two tag fetches joined by Promise.all) is one step, taken when   *)
(* its last answer arrives.                                                    *)
MaxClicks == 4
MaxInFlight == 2

RES_artist == Ok(<< Item(<<"S", "K", "E", "P", "T", "A">>, 1) >>)
RES_track == Ok(<< Item(<<"T", "r", "a", "p">>, 2) >>)
(* The provider's answers to the artist and the track tag fetch of one lookup. *)
NavTagAnswers == { << RES_artist, RES_track >>, << RES_throw, RES_throw >> }

CAT_self == [status |-> "ok", members |-> << TITLE_Drill_music >>]
(* The provider's answers to the category queries of one resolver run, in the  *)
(* order asked; the last one repeats.                                          *)
NavCategoryAnswers ==
  { << CAT_empty >>, << CAT_http, CAT_throw >>, << CAT_http, CAT_self >> }

SUM_throw == [status |-> "throw", title |-> << >>, extract |-> << >>, url |-> << >>]
SUM_http == [status |-> "http", title |-> << >>, extract |-> << >>, url |-> << >>]
SUM_music ==
  [status |-> "ok",
   title |-> <<"T", "r", "a", "p", " ", "m", "u", "s", "i", "c">>,
   extract |-> <<"m", "u", "s", "i", "c", " ", "g", "e", "n", "r", "e">>,
   url |-> <<"h", "t", "t", "p", ":", "/", "/", "w", "/", "1">>]
SUM_plain ==
  [status |-> "ok",
   title |-> <<"T", "r", "a", "p">>,
   extract |-> <<"d", "e", "v", "i", "c", "e">>,
   url |-> << >>]
(* The provider's answers to the summary queries of one lookup, in the order   *)
(* asked; the last one repeats.                                                *)
NavSummaryAnswers == { << SUM_music >>, << SUM_http, SUM_plain >>, << SUM_throw, SUM_http >> }

answerAt(answers, i) == answers[Min(i, Len(answers))]

(* fetchSubgenresFromWikipedia run to its return against the answers. *)
RECURSIVE subgenresFrom(_, _, _)
subgenresFrom(i, cands, answers) ==
  IF i > Len(cands) THEN << >>
  ELSE LET step == subgenresStep(i, cands, answerAt(answers, i))
       IN  IF step.done THEN step.result ELSE subgenresFrom(step.i, cands, answers)

fetchSubgenresFromWikipedia(genreName, answers) ==
  IF genreName = << >> THEN << >>
  ELSE subgenresFrom(1, candidates(genreName), answers)

(* The category titles that run of fetchSubgenresFromWikipedia queried. *)
RECURSIVE queriedFrom(_, _, _)
queriedFrom(i, cands, answers) ==
  IF i > Len(cands) THEN << >>
  ELSE LET step == subgenresStep(i, cands, answerAt(answers, i))
       IN  << cands[i] >>
             \o (IF step.done THEN << >> ELSE queriedFrom(step.i, cands, answers))

subgenreQueries(genreName, answers) ==
  IF genreName = << >> THEN << >>
  ELSE queriedFrom(1, candidates(genreName), answers)

(* The fetch loop of fetchGenreSummaryFromWikipedia run to its return. *)
RECURSIVE summaryFrom(_, _, _)
summaryFrom(j, titles, answers) ==
  IF j > Len(titles) THEN null
  ELSE LET step == summaryStep(j, titles, answerAt(answers, j))
       IN  IF step.done THEN step.wiki ELSE summaryFrom(step.j, titles, answers)

fetchGenreSummaryFromWikipedia(genreName, answers) ==
  summaryFrom(1, summaryTitles(genreName), answers)

NewOp ==
  [kind |-> "none", pc |-> "none", track |-> null, genreName |-> << >>,
   sourceTrack |-> null, options |-> [preserveTagColor |-> FALSE],
   subgenres |-> << >>]

(* An activation awaiting Promise.all of the two tag fetches for track. *)
tagFetchOp(kind, track) == [NewOp EXCEPT !.kind = kind, !.pc = "tags", !.track = Some(track)]

(* buildGenreFocusGraph awaiting fetchSubgenresFromWikipedia. *)
genreOp(genreName, sourceTrack, options) ==
  [NewOp EXCEPT !.kind = "genre", !.pc = "subgenres", !.genreName = genreName,
                !.sourceTrack = sourceTrack, !.options = options]

(* onGenreChipClick awaiting fetchGenreSummaryFromWikipedia. *)
chipOp(genreName) ==
  [NewOp EXCEPT !.kind = "chip", !.pc = "summary", !.genreName = genreName]

RemoveAt(s, k) == SubSeq(s, 1, k - 1) \o SubSeq(s, k + 1, Len(s))

artistTagsOf(track, artistRes) ==
  fetchArtistTopTags(artistOf(track), artistRes, FETCH_LIMIT)

trackTagsOf(track, trackRes) ==
  fetchTrackTopTags(artistOf(track), track.trackName, trackRes, FETCH_LIMIT)

Completed(kind, op, artistRes, trackRes, tags, wiki) ==
  [NoLast EXCEPT !.kind = kind, !.pc = "done", !.track = op.track, !.genreName = op.genreName,
                 !.sourceTrack = op.sourceTrack, !.subgenres = op.subgenres,
                 !.artistRes = artistRes, !.trackRes = trackRes,
                 !.tags = tags, !.wiki = wiki]

(* SelectTrack that takes the panel snapshot only after the await. *)
SelectTrack_snapshotLater ==
  /\ clicks < MaxClicks
  /\ Len(ops) < MaxInFlight
  /\ \E track \in Tracks :
       /\ currentTrack' = Some(track)
       /\ mapTitle' = STR_DNA_FOR \o track.trackName \o STR_DASH \o track.artistName
       /\ infoTitle' = track.trackName
       /\ infoContent' = trackInfoPanel(track)
       /\ ops' = Append(ops, tagFetchOp("select", track))
  /\ clicks' = clicks + 1
  /\ selection' = [at |-> clicks + 1, inFlight |-> [k \in 1..Len(ops) |-> ops[k].kind]]
  /\ last' = NoLast
  /\ UNCHANGED << currentTrackHTML, wikiCache, graph, build, prevGraph, firstSel, input,
                  tagRun, resolver, hoverInfoDiv, failed >>

(* A click listener ran up to its first await: the node clicked (none for the  *)
(* back button) and currentTrack as the listener found it.                     *)
Clicked(kind, id, label) ==
  [NoLast EXCEPT !.kind = kind, !.pc = "click", !.node = id, !.genreName = label,
                 !.track = currentTrack]

(* onITunesTrackSelected up to its await of the two tag fetches. *)
SelectTrack ==
  /\ clicks < MaxClicks
  /\ Len(ops) < MaxInFlight
  /\ \E track \in Tracks :
       /\ currentTrack' = Some(track)
       /\ mapTitle' = STR_DNA_FOR \o track.trackName \o STR_DASH \o track.artistName
       /\ infoTitle' = track.trackName
       /\ infoContent' = trackInfoPanel(track)
       /\ currentTrackHTML' = Some(innerHTML(trackInfoPanel(track)))
       /\ ops' = Append(ops, tagFetchOp("select", track))
  /\ clicks' = clicks + 1
  /\ selection' = [at |-> clicks + 1, inFlight |-> [k \in 1..Len(ops) |-> ops[k].kind]]
  /\ last' = NoLast
  /\ UNCHANGED << wikiCache, graph, build, prevGraph, firstSel, input, tagRun,
                  resolver, hoverInfoDiv, failed >>

(* SelectTagsAnswer that drops the answers of a selection that is no longer    *)
(* the current one.                                                            *)
SelectTagsAnswer_ifCurrent ==
  \E k \in 1..Len(ops), answers \in NavTagAnswers :
    /\ ops[k].kind = "select"
    /\ LET op == ops[k]
           artistRes == answers[1]
           trackRes == answers[2]
           track == op.track[1]
           filteredTags == selectFilteredTags(artistOf(track),
                                              artistTagsOf(track, artistRes),
                                              trackTagsOf(track, trackRes))
           g == buildTrackGenreGraph(track, filteredTags)
           shown == renderGraph(g.nodes, g.links, g.title).graph
       IN  /\ IF op.track = currentTrack
              THEN /\ infoContent' = IF Len(filteredTags) > 0
                                     THEN renderGenreChips(infoContent, filteredTags)
                                     ELSE infoContent
                   /\ Render(TrackBuild(track, filteredTags), g)
              ELSE UNCHANGED << infoContent, graphVars, failed >>
           /\ ops' = RemoveAt(ops, k)
           /\ last' = Completed("select", op, artistRes, trackRes, filteredTags, null)
           /\ firstSel' = IF firstSel = null
                          THEN Some([track |-> track, artistRes |-> artistRes,
                                     trackRes |-> trackRes, tags |-> filteredTags,
                                     graph |-> shown])
                          ELSE firstSel
    /\ UNCHANGED << currentTrack, currentTrackHTML, wikiCache, infoTitle, clicks, input,
                    tagRun, resolver, hoverInfoDiv, selection, failed >>

(* onITunesTrackSelected from the answers of the two tag fetches it awaits     *)
(* together: merge, filter, chips, buildTrackGenreGraph.                       *)
SelectTagsAnswer ==
  \E k \in 1..Len(ops), answers \in NavTagAnswers :
    /\ ops[k].kind = "select"
    /\ LET op == ops[k]
           artistRes == answers[1]
           trackRes == answers[2]
           track == op.track[1]
           filteredTags == selectFilteredTags(artistOf(track),
                                              artistTagsOf(track, artistRes),
                                              trackTagsOf(track, trackRes))
           g == buildTrackGenreGraph(track, filteredTags)
           shown == renderGraph(g.nodes, g.links, g.title).graph
       IN  /\ infoContent' = IF Len(filteredTags) > 0
                             THEN renderGenreChips(infoContent, filteredTags)
                             ELSE infoContent
           /\ Render(TrackBuild(track, filteredTags), g)
           /\ ops' = RemoveAt(ops, k)
           /\ last' = Completed("select", op, artistRes, trackRes, filteredTags, null)
           /\ firstSel' = IF firstSel = null
                          THEN Some([track |-> track, artistRes |-> artistRes,
                                     trackRes |-> trackRes, tags |-> filteredTags,
                                     graph |-> shown])
                          ELSE firstSel
    /\ UNCHANGED << currentTrack, currentTrackHTML, wikiCache, infoTitle, clicks, input,
                    tagRun, resolver, hoverInfoDiv, selection, failed >>

(* onNodeClick on a track node, up to the await of the two tag fetches. *)
ClickTrackNode ==
  /\ clicks < MaxClicks
  /\ Len(ops) < MaxInFlight
  /\ \E n \in 1..Len(graph.nodes) :
       /\ graph.nodes[n].type = "track"
       /\ LET node == graph.nodes[n]
              t == node.trackData[1]
          IN  /\ infoTitle' = IF t.trackName # << >> THEN t.trackName ELSE node.label
              /\ infoContent' = trackNodePanel(t)
              /\ ops' = Append(ops, tagFetchOp("trackNode", t))
  /\ clicks' = clicks + 1
  /\ last' = NoLast
  /\ UNCHANGED << currentTrack, currentTrackHTML, wikiCache, firstSel, graphVars,
                  input, tagRun, resolver, hoverInfoDiv, selection, failed >>

(* The track branch of onNodeClick from the answers of the two tag fetches:    *)
(* merge, buildTrackGenreGraph.                                                *)
TrackNodeTagsAnswer ==
  \E k \in 1..Len(ops), answers \in NavTagAnswers :
    /\ ops[k].kind = "trackNode"
    /\ LET op == ops[k]
           artistRes == answers[1]
           trackRes == answers[2]
           t == op.track[1]
           combined == nodeClickTags(artistTagsOf(t, artistRes), trackTagsOf(t, trackRes))
           g == buildTrackGenreGraph(t, combined)
           shown == renderGraph(g.nodes, g.links, g.title).graph
       IN  /\ Render(TrackBuild(t, combined), g)
           /\ ops' = RemoveAt(ops, k)
           /\ last' = Completed("trackNode", op, artistRes, trackRes, combined, null)
    /\ UNCHANGED << currentTrack, currentTrackHTML, wikiCache, infoTitle, infoContent,
                    firstSel, clicks, input, tagRun, resolver, hoverInfoDiv, selection, failed >>

(* ClickTagNode that starts the build without the preserveTagColor option. *)
ClickTagNode_noFlag ==
  /\ clicks < MaxClicks
  /\ Len(ops) < MaxInFlight
  /\ \E n \in 1..Len(graph.nodes) :
       /\ graph.nodes[n].type = "tag"
       /\ graph.nodes[n].label # << >>
       /\ ops' = Append(ops, genreOp(graph.nodes[n].label, currentTrack,
                                     [preserveTagColor |-> FALSE]))
       /\ last' = Clicked("clickTag", graph.nodes[n].id, graph.nodes[n].label)
  /\ clicks' = clicks + 1
  /\ UNCHANGED << currentTrack, currentTrackHTML, wikiCache, infoTitle, infoContent,
                  firstSel, graphVars, input, tagRun, resolver, hoverInfoDiv, selection, failed >>

(* onNodeClick on a tag node: buildGenreFocusGraph(label, currentTrack,        *)
(* {preserveTagColor: true}) up to its first await.                            *)
ClickTagNode ==
  /\ clicks < MaxClicks
  /\ Len(ops) < MaxInFlight
  /\ \E n \in 1..Len(graph.nodes) :
       /\ graph.nodes[n].type = "tag"
       /\ graph.nodes[n].label # << >>
       /\ ops' = Append(ops, genreOp(graph.nodes[n].label, currentTrack,
                                     [preserveTagColor |-> TRUE]))
       /\ last' = Clicked("clickTag", graph.nodes[n].id, graph.nodes[n].label)
  /\ clicks' = clicks + 1
  /\ UNCHANGED << currentTrack, currentTrackHTML, wikiCache, infoTitle, infoContent,
                  firstSel, graphVars, input, tagRun, resolver, hoverInfoDiv, selection, failed >>

(* onNodeClick on a genre node: buildGenreFocusGraph(label) up to its first    *)
(* await.                                                                      *)
ClickGenreNode ==
  /\ clicks < MaxClicks
  /\ Len(ops) < MaxInFlight
  /\ \E n \in 1..Len(graph.nodes) :
       /\ graph.nodes[n].type = "genre"
       /\ graph.nodes[n].label # << >>
       /\ ops' = Append(ops, genreOp(graph.nodes[n].label, null,
                                     [preserveTagColor |-> FALSE]))
       /\ last' = Clicked("clickGenre", graph.nodes[n].id, graph.nodes[n].label)
  /\ clicks' = clicks + 1
  /\ UNCHANGED << currentTrack, currentTrackHTML, wikiCache, infoTitle, infoContent,
                  firstSel, graphVars, input, tagRun, resolver, hoverInfoDiv, selection, failed >>

(* buildGenreFocusGraph from the return of fetchSubgenresFromWikipedia: the    *)
(* graph is rendered, the panel shows the loading text and the summary is      *)
(* looked up (from the cache at once).                                         *)
GenreSubgenresAnswer ==
  \E k \in 1..Len(ops), answers \in NavCategoryAnswers :
    /\ ops[k].kind = "genre"
    /\ ops[k].pc = "subgenres"
    /\ LET op == ops[k]
           name == trim(op.genreName)
           subgenres == fetchSubgenresFromWikipedia(name, answers)
           g == buildGenreFocusGraph(op.genreName, op.sourceTrack, op.options, subgenres)
           shown == renderGraph(g.nodes, g.links, g.title).graph
           rendered == [op EXCEPT !.pc = "summary", !.subgenres = subgenres]
       IN  /\ Render(GenreBuild(op.genreName, op.sourceTrack, op.options, subgenres), g)
           /\ infoTitle' = name
           /\ IF name \in DOMAIN wikiCache
              THEN /\ infoContent' =
                        genreSummaryPanel(name, Some(wikiCache[name]), subgenres,
                                          currentTrack, currentTrackHTML)
                   /\ ops' = RemoveAt(ops, k)
                   /\ last' = [Completed("genre", rendered, NoResponse, NoResponse,
                                          << >>, Some(wikiCache[name]))
                                  EXCEPT !.queried = subgenreQueries(name, answers)]
              ELSE /\ infoContent' = loadingPanel
                   /\ ops' = [ops EXCEPT ![k] = rendered]
                   /\ last' = [Completed("genre", rendered, NoResponse, NoResponse,
                                          << >>, null)
                                  EXCEPT !.pc = "summary",
                                         !.queried = subgenreQueries(name, answers)]
    /\ UNCHANGED << currentTrack, currentTrackHTML, wikiCache, firstSel, clicks, input,
                    tagRun, resolver, hoverInfoDiv, selection, failed >>

(* buildGenreFocusGraph from the return of fetchGenreSummaryFromWikipedia      *)
(* (which caches a page it found): the panel is written and the back button    *)
(* wired.                                                                      *)
GenreSummaryAnswer ==
  \E k \in 1..Len(ops), answers \in NavSummaryAnswers :
    /\ ops[k].kind = "genre"
    /\ ops[k].pc = "summary"
    /\ LET op == ops[k]
           name == trim(op.genreName)
           wiki == fetchGenreSummaryFromWikipedia(name, answers)
       IN  /\ wikiCache' = IF wiki # null THEN cacheSet(wikiCache, name, wiki[1])
                           ELSE wikiCache
           /\ infoContent' = genreSummaryPanel(name, wiki, op.subgenres, currentTrack,
                                               currentTrackHTML)
           /\ failed' = IF wiki = null THEN failed \cup {name} ELSE failed
           /\ ops' = RemoveAt(ops, k)
           /\ last' = Completed("genre", op, NoResponse, NoResponse, << >>, wiki)
    /\ UNCHANGED << currentTrack, currentTrackHTML, infoTitle, firstSel, graphVars,
                    clicks, input, tagRun, resolver, hoverInfoDiv, selection >>

(* onGenreChipClick: buildGenreFocusGraph(genreName, null, {preserveTagColor:  *)
(* true}) up to its first await, then the panel and the summary lookup.        *)
ClickChip ==
  /\ clicks < MaxClicks
  /\ Len(ops) + 2 <= MaxInFlight
  /\ \E c \in 1..Len(infoContent.chips) :
       LET genreName == infoContent.chips[c]
           focus == genreOp(genreName, null, [preserveTagColor |-> TRUE])
       IN  /\ genreName # << >>
           /\ infoTitle' = genreName
           /\ IF genreName \in DOMAIN wikiCache
              THEN /\ infoContent' = chipSummaryPanel(genreName, Some(wikiCache[genreName]))
                   /\ ops' = Append(ops, focus)
              ELSE /\ infoContent' = loadingPanel
                   /\ ops' = Append(Append(ops, focus), chipOp(genreName))
  /\ clicks' = clicks + 1
  /\ last' = NoLast
  /\ UNCHANGED << currentTrack, currentTrackHTML, wikiCache, firstSel, graphVars,
                  input, tagRun, resolver, hoverInfoDiv, selection, failed >>

(* onGenreChipClick from the return of fetchGenreSummaryFromWikipedia. *)
ChipSummaryAnswer ==
  \E k \in 1..Len(ops), answers \in NavSummaryAnswers :
    /\ ops[k].kind = "chip"
    /\ LET op == ops[k]
           wiki == fetchGenreSummaryFromWikipedia(op.genreName, answers)
       IN  /\ wikiCache' = IF wiki # null THEN cacheSet(wikiCache, op.genreName, wiki[1])
                           ELSE wikiCache
           /\ infoContent' = chipSummaryPanel(op.genreName, wiki)
           /\ failed' = IF wiki = null THEN failed \cup {op.genreName} ELSE failed
           /\ ops' = RemoveAt(ops, k)
           /\ last' = Completed("chip", op, NoResponse, NoResponse, << >>, wiki)
    /\ UNCHANGED << currentTrack, currentTrackHTML, infoTitle, firstSel, graphVars,
                    clicks, input, tagRun, resolver, hoverInfoDiv, selection >>

(* ClickBack that leaves the panel as it is. *)
ClickBack_noRestore ==
  /\ clicks < MaxClicks
  /\ Len(ops) < MaxInFlight
  /\ infoContent.back
  /\ infoContent.wired
  /\ ops' = IF currentTrack # null
            THEN Append(ops, tagFetchOp("back", currentTrack[1]))
            ELSE ops
  /\ clicks' = clicks + 1
  /\ last' = Clicked("clickBack", << >>, << >>)
  /\ UNCHANGED << currentTrack, currentTrackHTML, wikiCache, infoTitle, infoContent,
                  firstSel, graphVars, input, tagRun, resolver, hoverInfoDiv, selection, failed >>

(* ClickBack that forgets the selected track once the panel is restored. *)
ClickBack_clearsTrack ==
  /\ clicks < MaxClicks
  /\ Len(ops) < MaxInFlight
  /\ infoContent.back
  /\ infoContent.wired
  /\ infoContent' = currentTrackHTML[1]
  /\ ops' = IF currentTrack # null
            THEN Append(ops, tagFetchOp("back", currentTrack[1]))
            ELSE ops
  /\ currentTrack' = null
  /\ clicks' = clicks + 1
  /\ last' = Clicked("clickBack", << >>, << >>)
  /\ UNCHANGED << currentTrackHTML, wikiCache, infoTitle, firstSel,
                  graphVars, input, tagRun, resolver, hoverInfoDiv, selection, failed >>

(* ClickBack that uses the snapshot up: it is dropped once restored. *)
ClickBack_consumesSnapshot ==
  /\ clicks < MaxClicks
  /\ Len(ops) < MaxInFlight
  /\ infoContent.back
  /\ infoContent.wired
  /\ infoContent' = currentTrackHTML[1]
  /\ currentTrackHTML' = null
  /\ ops' = IF currentTrack # null
            THEN Append(ops, tagFetchOp("back", currentTrack[1]))
            ELSE ops
  /\ clicks' = clicks + 1
  /\ last' = Clicked("clickBack", << >>, << >>)
  /\ UNCHANGED << currentTrack, wikiCache, infoTitle, firstSel,
                  graphVars, input, tagRun, resolver, hoverInfoDiv, selection, failed >>

(* The click listener of backToTrackBtn, up to the await of the tag fetches. *)
ClickBack ==
  /\ clicks < MaxClicks
  /\ Len(ops) < MaxInFlight
  /\ infoContent.back
  /\ infoContent.wired
  /\ infoContent' = currentTrackHTML[1]
  /\ ops' = IF currentTrack # null
            THEN Append(ops, tagFetchOp("back", currentTrack[1]))
            ELSE ops
  /\ clicks' = clicks + 1
  /\ last' = Clicked("clickBack", << >>, << >>)
  /\ UNCHANGED << currentTrack, currentTrackHTML, wikiCache, infoTitle, firstSel,
                  graphVars, input, tagRun, resolver, hoverInfoDiv, selection, failed >>

(* BackTagsAnswer that restores the chips but leaves the graph shown. *)
BackTagsAnswer_keepGraph ==
  \E k \in 1..Len(ops), answers \in NavTagAnswers :
    /\ ops[k].kind = "back"
    /\ LET op == ops[k]
           artistRes == answers[1]
           trackRes == answers[2]
           filtered == backFilteredTags(artistOf(op.track[1]),
                                        artistTagsOf(op.track[1], artistRes),
                                        trackTagsOf(op.track[1], trackRes))
           g == buildTrackGenreGraph(currentTrack[1], filtered)
           shown == renderGraph(g.nodes, g.links, g.title).graph
       IN  /\ infoContent' = IF Len(filtered) > 0
                             THEN renderGenreChips(infoContent, filtered)
                             ELSE infoContent
           /\ UNCHANGED graphVars
           /\ ops' = RemoveAt(ops, k)
           /\ last' = [Completed("back", op, artistRes, trackRes, filtered, null)
                         EXCEPT !.after = IF last.kind = "clickBack" THEN "clickBack"
                                          ELSE "none"]
    /\ UNCHANGED << currentTrack, currentTrackHTML, wikiCache, infoTitle, firstSel,
                    clicks, input, tagRun, resolver, hoverInfoDiv, selection, failed >>

(* The back listener from the answers of the two tag fetches: merge, filter,   *)
(* chips, buildTrackGenreGraph(currentTrack, filtered).                        *)
BackTagsAnswer ==
  \E k \in 1..Len(ops), answers \in NavTagAnswers :
    /\ ops[k].kind = "back"
    /\ LET op == ops[k]
           artistRes == answers[1]
           trackRes == answers[2]
           filtered == backFilteredTags(artistOf(op.track[1]),
                                        artistTagsOf(op.track[1], artistRes),
                                        trackTagsOf(op.track[1], trackRes))
           g == buildTrackGenreGraph(currentTrack[1], filtered)
           shown == renderGraph(g.nodes, g.links, g.title).graph
       IN  /\ infoContent' = IF Len(filtered) > 0
                             THEN renderGenreChips(infoContent, filtered)
                             ELSE infoContent
           /\ Render(TrackBuild(currentTrack[1], filtered), g)
           /\ ops' = RemoveAt(ops, k)
           /\ last' = [Completed("back", op, artistRes, trackRes, filtered, null)
                         EXCEPT !.after = IF last.kind = "clickBack" THEN "clickBack"
                                          ELSE "none"]
    /\ UNCHANGED << currentTrack, currentTrackHTML, wikiCache, infoTitle, firstSel,
                    clicks, input, tagRun, resolver, hoverInfoDiv, selection, failed >>

(* showGenreHoverInfo awaiting fetchGenreSummaryFromWikipedia. *)
hoverOp(genreName) ==
  [NewOp EXCEPT !.kind = "hover", !.pc = "summary", !.genreName = genreName]

(* What the preview element shows. *)
hoverLoading(genreName) ==
  [kind |-> "loading", title |-> genreName, extract |-> << >>, url |-> << >>]

hoverResult(shown, data) ==
  IF data = null THEN [shown EXCEPT !.kind = "none"]
  ELSE [kind |-> "summary", title |-> data[1].title, extract |-> data[1].extract,
        url |-> data[1].url]

(* A write to the preview element shows in the panel while the element is a    *)
(* child of it.                                                                *)
writeHover(panel, content) ==
  IF panel.hover # null THEN [panel EXCEPT !.hover = Some(content)] ELSE panel

(* mouseenter on a chip: showGenreHoverInfo up to its await (past it when the  *)
(* summary is cached).                                                         *)
HoverChip ==
  /\ clicks < MaxClicks
  /\ Len(ops) < MaxInFlight
  /\ \E c \in 1..Len(infoContent.chips) :
       LET genreName == infoContent.chips[c]
           appended == IF hoverInfoDiv = null
                       THEN [infoContent EXCEPT !.hover = Some(hoverLoading(genreName))]
                       ELSE infoContent
           loading == writeHover(appended, hoverLoading(genreName))
       IN  /\ genreName # << >>
           /\ hoverInfoDiv' = Some("div")
           /\ IF genreName \in DOMAIN wikiCache
              THEN /\ infoContent' =
                        writeHover(loading, hoverResult(hoverLoading(genreName),
                                                        Some(wikiCache[genreName])))
                   /\ ops' = ops
              ELSE /\ infoContent' = loading
                   /\ ops' = Append(ops, hoverOp(genreName))
           /\ last' = Clicked("hover", << >>, genreName)
  /\ clicks' = clicks + 1
  /\ UNCHANGED << currentTrack, currentTrackHTML, wikiCache, infoTitle, firstSel,
                  graphVars, input, tagRun, resolver, selection, failed >>

(* HoverSummaryAnswer that stores an empty page for a lookup that found none. *)
HoverSummaryAnswer_cachesNull ==
  \E k \in 1..Len(ops), answers \in NavSummaryAnswers :
    /\ ops[k].kind = "hover"
    /\ LET op == ops[k]
           data == fetchGenreSummaryFromWikipedia(op.genreName, answers)
       IN  /\ wikiCache' = IF data # null THEN cacheSet(wikiCache, op.genreName, data[1])
                           ELSE cacheSet(wikiCache, op.genreName,
                                         [title |-> << >>, extract |-> << >>,
                                          url |-> << >>])
           /\ infoContent' =
                 IF hoverInfoDiv = null \/ infoContent.hover = null THEN infoContent
                 ELSE writeHover(infoContent, hoverResult(infoContent.hover[1], data))
           /\ failed' = IF data = null THEN failed \cup {op.genreName} ELSE failed
           /\ ops' = RemoveAt(ops, k)
           /\ last' = Completed("hover", op, NoResponse, NoResponse, << >>, data)
    /\ UNCHANGED << currentTrack, currentTrackHTML, infoTitle, firstSel, graphVars,
                    clicks, hoverInfoDiv, input, tagRun, resolver, selection >>

(* showGenreHoverInfo from the return of fetchGenreSummaryFromWikipedia; the    *)
(* write throws when hideGenreHoverInfo has set hoverInfoDiv to null.          *)
HoverSummaryAnswer ==
  \E k \in 1..Len(ops), answers \in NavSummaryAnswers :
    /\ ops[k].kind = "hover"
    /\ LET op == ops[k]
           data == fetchGenreSummaryFromWikipedia(op.genreName, answers)
       IN  /\ wikiCache' = IF data # null THEN cacheSet(wikiCache, op.genreName, data[1])
                           ELSE wikiCache
           /\ infoContent' =
                 IF hoverInfoDiv = null \/ infoContent.hover = null THEN infoContent
                 ELSE writeHover(infoContent, hoverResult(infoContent.hover[1], data))
           /\ failed' = IF data = null THEN failed \cup {op.genreName} ELSE failed
           /\ ops' = RemoveAt(ops, k)
           /\ last' = Completed("hover", op, NoResponse, NoResponse, << >>, data)
    /\ UNCHANGED << currentTrack, currentTrackHTML, infoTitle, firstSel, graphVars,
                    clicks, hoverInfoDiv, input, tagRun, resolver, selection >>

(* mouseleave on a chip: hideGenreHoverInfo. *)
LeaveChip ==
  /\ clicks < MaxClicks
  /\ infoContent.chips # << >>
  /\ hoverInfoDiv # null
  /\ infoContent' = [infoContent EXCEPT !.hover = null]
  /\ hoverInfoDiv' = null
  /\ clicks' = clicks + 1
  /\ last' = Clicked("leave", << >>, << >>)
  /\ UNCHANGED << currentTrack, currentTrackHTML, wikiCache, infoTitle, ops, firstSel,
                  graphVars, input, tagRun, resolver, selection, failed >>

Next ==
  \/ SelectTrack
  \/ SelectTagsAnswer
  \/ ClickTrackNode
  \/ TrackNodeTagsAnswer
  \/ ClickTagNode
  \/ ClickGenreNode
  \/ GenreSubgenresAnswer
  \/ GenreSummaryAnswer
  \/ ClickChip
  \/ ChipSummaryAnswer
  \/ ClickBack
  \/ BackTagsAnswer
  \/ HoverChip
  \/ HoverSummaryAnswer
  \/ LeaveChip

Spec == Init /\ [][Next]_vars

-----------------------------------------------------------------------------
(* fetchGenreSummaryFromWikipedia as a process: calls with names drawn from    *)
(* SummaryNames, each lookup with one summary query in flight at a time, up    *)
(* to MaxLookups lookups suspended together.  An entry of ops is here          *)
(* [genreName, j, queried, answers]: the caller's name, the index of the       *)
(* title in flight, the titles queried and the answers received so far; last   *)
(* is the call or return of the step just taken.                               *)
MaxCalls == 3
MaxLookups == 2

NAME_rap == <<"r", "a", "p">>
NAME_Rap == <<"R", "a", "p">>
NAME_rap_padded == <<" ", "r", "a", "p", " ">>
SummaryNames == {NAME_rap, NAME_Rap, NAME_rap_padded, TAG_trap, NAME_empty}

(* A success status whose body has no title and no extract. *)
SUM_untitled == [status |-> "ok", title |-> << >>, extract |-> << >>, url |-> << >>]
SummaryResponses == {SUM_music, SUM_plain, SUM_http, SUM_throw, SUM_untitled}

SummaryReturn(genreName, wiki, queried, answers) ==
  [pc |-> "returned", genreName |-> genreName, wiki |-> wiki, queried |-> queried,
   answers |-> answers]

(* SummaryCall that looks the name up in the cache lower-cased and trimmed. *)
SummaryCall_normalizedKey ==
  /\ clicks < MaxCalls
  /\ Len(ops) < MaxLookups
  /\ \E genreName \in SummaryNames :
       LET hits == { key \in DOMAIN wikiCache :
                       trim(toLowerCase(key)) = trim(toLowerCase(genreName)) }
       IN  IF genreName = << >>
           THEN /\ last' = SummaryReturn(genreName, null, << >>, << >>)
                /\ ops' = ops
           ELSE IF hits # {}
           THEN /\ last' = SummaryReturn(genreName,
                                         Some(wikiCache[CHOOSE key \in hits : TRUE]),
                                         << >>, << >>)
                /\ ops' = ops
           ELSE LET lookupOp == [genreName |-> genreName, j |-> 1,
                                 queried |-> << summaryTitles(genreName)[1] >>,
                                 answers |-> << >>]
                IN  /\ ops' = Append(ops, lookupOp)
                    /\ last' = [pc |-> "issued", genreName |-> genreName,
                                wiki |-> null, queried |-> lookupOp.queried,
                                answers |-> << >>]
  /\ clicks' = clicks + 1
  /\ UNCHANGED << currentTrack, currentTrackHTML, wikiCache, infoTitle, infoContent,
                  firstSel, hoverInfoDiv, selection, failed, graphVars, input,
                  tagRun, resolver >>

(* The call, up to the first await: null for a falsy name, the cached value    *)
(* when the name is a key of the cache, else the first query is issued.        *)
SummaryCall ==
  /\ clicks < MaxCalls
  /\ Len(ops) < MaxLookups
  /\ \E genreName \in SummaryNames :
       IF genreName = << >>
       THEN /\ last' = SummaryReturn(genreName, null, << >>, << >>)
            /\ ops' = ops
       ELSE IF genreName \in DOMAIN wikiCache
       THEN /\ last' = SummaryReturn(genreName, Some(wikiCache[genreName]),
                                     << >>, << >>)
            /\ ops' = ops
       ELSE LET lookupOp == [genreName |-> genreName, j |-> 1,
                             queried |-> << summaryTitles(genreName)[1] >>,
                             answers |-> << >>]
            IN  /\ ops' = Append(ops, lookupOp)
                /\ last' = [pc |-> "issued", genreName |-> genreName, wiki |-> null,
                            queried |-> lookupOp.queried, answers |-> << >>]
  /\ clicks' = clicks + 1
  /\ UNCHANGED << currentTrack, currentTrackHTML, wikiCache, infoTitle, infoContent,
                  firstSel, hoverInfoDiv, selection, failed, graphVars, input,
                  tagRun, resolver >>

(* The query in flight of a lookup is answered: the page is cached and         *)
(* returned, or the next title is queried, or null is returned.                *)
SummaryAnswer ==
  \E k \in 1..Len(ops), res \in SummaryResponses :
    LET op == ops[k]
        titles == summaryTitles(op.genreName)
        step == summaryStep(op.j, titles, res)
        answers == Append(op.answers, res)
    IN  /\ IF step.done
           THEN /\ wikiCache' = IF step.wiki # null
                                THEN cacheSet(wikiCache, op.genreName, step.wiki[1])
                                ELSE wikiCache
                /\ failed' = IF step.wiki = null THEN failed \cup {op.genreName}
                             ELSE failed
                /\ ops' = RemoveAt(ops, k)
                /\ last' = SummaryReturn(op.genreName, step.wiki, op.queried, answers)
           ELSE /\ ops' = [ops EXCEPT ![k] = [op EXCEPT !.j = step.j,
                                                       !.queried = Append(@, titles[step.j]),
                                                       !.answers = answers]]
                /\ last' = [pc |-> "next", genreName |-> op.genreName, wiki |-> null,
                            queried |-> Append(op.queried, titles[step.j]),
                            answers |-> answers]
                /\ UNCHANGED << wikiCache, failed >>
        /\ UNCHANGED << currentTrack, currentTrackHTML, infoTitle, infoContent,
                        firstSel, clicks, hoverInfoDiv, selection, graphVars, input,
                        tagRun, resolver >>

NextSummary == SummaryCall \/ SummaryAnswer

SpecSummary == Init /\ [][NextSummary]_vars

(* What a node stands for: the track record of a track node, the name of a    *)
(* tag or genre node.                                                          *)
C29_Content(n) == IF n.type = "track" THEN n.trackData ELSE << n.label >>

(* The graph a builder hands to renderGraph for the inputs bi. *)
C29_Built(bi) ==
  IF bi.fn = "track" THEN buildTrackGenreGraph(bi.track[1], bi.tags)
  ELSE buildGenreFocusGraph(bi.genreName, bi.sourceTrack, bi.options, bi.subgenres)

\* C29: node identity is stable across builds. A node of the graph shown and a
\* node of any other build that are of the same kind and stand for the same
\* track, tag or genre name have the same id.
C29_NodeIdentityStable ==
  \A bi \in BuilderInputs \ {input} :
    LET other == C29_Built(bi)
    IN  \A n \in 1..Len(graph.nodes), m \in 1..Len(other.nodes) :
          ( /\ graph.nodes[n].type = other.nodes[m].type
            /\ C29_Content(graph.nodes[n]) = C29_Content(other.nodes[m]) )
          => graph.nodes[n].id = other.nodes[m].id

\* C30: one id per logical entity within a build. Two nodes of the same kind
\* with the same name in the graph shown are one node, so a resolver result
\* that contains the focal genre's own name gives no second node with the
\* central node's label.
C30_OneIdPerEntity ==
  \A n, m \in 1..Len(graph.nodes) :
    ( /\ graph.nodes[n].type = graph.nodes[m].type
      /\ graph.nodes[n].label = graph.nodes[m].label )
    => n = m

-----------------------------------------------------------------------------
(* Properties of the summary lookup. *)

(* A page that a lookup fetched is stored under the caller's own string. *)
C22_StoredUnderCallerName ==
  (last.pc = "returned" /\ last.wiki # null /\ last.queried # << >>) =>
    /\ last.genreName \in DOMAIN wikiCache
    /\ wikiCache[last.genreName] = last.wiki[1]

(* A call: answered from the cache exactly when the caller's string is a key. *)
C22_CallStep ==
  clicks' = clicks + 1 =>
    LET name == last'.genreName
    IN  /\ name \in DOMAIN wikiCache =>
              /\ last'.pc = "returned"
              /\ last'.wiki = Some(wikiCache[name])
              /\ last'.queried = << >>
              /\ ops' = ops
              /\ wikiCache' = wikiCache
        /\ (name # << >> /\ name \notin DOMAIN wikiCache) =>
              /\ last'.pc = "issued"
              /\ last'.queried = << summaryTitles(name)[1] >>
              /\ Len(ops') = Len(ops) + 1
              /\ ops'[Len(ops')].genreName = name

\* C22: summary memoization by exact name. A lookup whose name string is a key
\* of the cache returns the cached value and issues no provider call; a lookup
\* of any other non-empty string issues provider calls and stores the page it
\* finds under that string, so names that differ only in case or surrounding
\* whitespace are separate entries even when they resolve through one alias.
C22_MemoByExactName == [](C22_StoredUnderCallerName) /\ [][C22_CallStep]_vars

C22_Witness ==
  /\ summaryTitles(NAME_rap) = summaryTitles(NAME_Rap)
  /\ NAME_rap \in DOMAIN wikiCache
  /\ NAME_Rap \in DOMAIN wikiCache
  /\ wikiCache[NAME_rap] # wikiCache[NAME_Rap]
  /\ last.pc = "returned"
  /\ last.genreName = NAME_rap
  /\ last.queried = << >>
  /\ last.wiki = Some(wikiCache[NAME_rap])

(* An answer of the summary provider without a usable page: a rejected fetch   *)
(* or json(), a status that is not ok, or a success status whose body lacks    *)
(* the title or the extract.                                                   *)
C24_NoPage(res) == res.status # "ok" \/ res.title = << >> \/ res.extract = << >>

\* C24: summary provider degradation. A lookup returns null when the provider's
\* answer for every title it tried was a transport error, a non-success status
\* or a malformed payload, and leaves the name without an entry it did not
\* have; a result that is not null carries the title and the extract of the
\* answer it came from.
C24_SummaryDegradation ==
  (last.pc = "returned" /\ last.answers # << >>) =>
    LET answers == last.answers
    IN  /\ (\A k \in 1..Len(answers) : C24_NoPage(answers[k])) => last.wiki = null
        /\ last.wiki # null =>
              /\ last.wiki[1].title = answers[Len(answers)].title
              /\ last.wiki[1].extract = answers[Len(answers)].extract

-----------------------------------------------------------------------------
(* Properties of the built graphs. *)
NodeIds(g) == { g.nodes[i].id : i \in 1..Len(g.nodes) }
CentralNodes(g) == { i \in 1..Len(g.nodes) : g.nodes[i].isCentral }
ContextNodes(g) == { i \in 1..Len(g.nodes) : g.nodes[i].isContext }
HasRepeat(s) == Len(s) > Cardinality(Elems(s))

\* C1: referential integrity. In every graph handed to renderGraph by either
\* builder, each link's source id and target id are ids of nodes of that graph.
C1_ReferentialIntegrity ==
  \A k \in 1..Len(graph.links) :
    /\ graph.links[k].source \in NodeIds(graph)
    /\ graph.links[k].target \in NodeIds(graph)

C1_Witness ==
  /\ build.fn = "genre"
  /\ build.sourceTrack # null
  /\ build.genreName = NAME_trap_padded
  /\ Len(build.subgenres) >= 2
  /\ Len(graph.links) >= 3

\* C2: exactly one central node. Every rendered graph has exactly one node
\* with isCentral, and it is the focal track (Track view) or the focal genre
\* (Genre-focus view).
C2_ExactlyOneCentral ==
  build.fn # "none" =>
    /\ Cardinality(CentralNodes(graph)) = 1
    /\ \A i \in CentralNodes(graph) :
         /\ build.fn = "track" =>
              /\ graph.nodes[i].type = "track"
              /\ graph.nodes[i].trackData = build.track
         /\ build.fn = "genre" =>
              /\ graph.nodes[i].type = "genre"
              /\ graph.nodes[i].label = trim(build.genreName)

C2_Witness ==
  /\ build.fn = "genre"
  /\ build.sourceTrack # null
  /\ build.subgenres # << >>
  /\ \E i \in 1..Len(graph.nodes) :
       graph.nodes[i].isCentral /\ graph.nodes[i].label = NAME_jazz

\* C3: dedup within one build. Node ids are unique; adding a node whose id is
\* in the identity map leaves the node list unchanged and returns the first
\* instance; a repeated tag or subgenre title yields one node; building again
\* from the same inputs yields the same set of node ids.
C3_DedupWithinBuild ==
  /\ \A i, j \in 1..Len(graph.nodes) :
       graph.nodes[i].id = graph.nodes[j].id => i = j
  /\ LET b == [nodes |-> graph.nodes, links |-> graph.links,
               map |-> [id \in NodeIds(graph) |->
                         CHOOSE n \in Elems(graph.nodes) : n.id = id]]
     IN  \A n \in Elems(graph.nodes) :
           LET again == [n EXCEPT !.label = << >>, !.isCentral = ~@]
           IN  /\ add(b, again).nodes = graph.nodes
               /\ addResult(b, again) = n
  /\ build.fn = "track" =>
       \A t \in Elems(slice(build.tags, 0, 12)) :
         Cardinality({ i \in 1..Len(graph.nodes) :
                         graph.nodes[i].id = STR_TAG \o t }) = 1
  /\ build.fn = "genre" =>
       \A title \in Elems(build.subgenres) :
         Cardinality({ i \in 1..Len(graph.nodes) :
                         /\ graph.nodes[i].label = title
                         /\ ~graph.nodes[i].isCentral }) = 1
  /\ prevGraph # null => NodeIds(prevGraph[1]) = NodeIds(graph)

C3_Witness ==
  /\ build.fn = "track"
  /\ HasRepeat(slice(build.tags, 0, 12))
  /\ prevGraph # null
  /\ Len(graph.nodes) > 1

\* C4: Track view shape. The graph is the central track node plus one tag node
\* per distinct tag among the first 12 entries of the tag list: 1 + that many
\* nodes (at most 13), one link per tag node, every link from the track node
\* to a tag node.
C4_TrackViewShape ==
  build.fn = "track" =>
    LET n == graph.nodes
        l == graph.links
        first == Elems(slice(build.tags, 0, 12))
        tagIdx == { i \in 1..Len(n) : n[i].type = "tag" }
    IN  /\ Len(n) = 1 + Cardinality(first)
        /\ Len(n) <= 13
        /\ n[1].type = "track" /\ n[1].isCentral /\ n[1].trackData = build.track
        /\ tagIdx = 2..Len(n)
        /\ { n[i].label : i \in tagIdx } = first
        /\ Len(l) = Cardinality(tagIdx)
        /\ \A k \in 1..Len(l) :
             /\ l[k].source = n[1].id
             /\ \E i \in tagIdx : l[k].target = n[i].id

C4_Witness ==
  /\ build.fn = "track"
  /\ Len(build.tags) = 14
  /\ Len(graph.nodes) = 13
  /\ Len(graph.links) = 12

\* C5: Genre-focus view shape. The graph is the context track node (exactly
\* when a source track was passed; isContext; one link from it to the central
\* genre node), one central genre node, and one node per distinct subgenre
\* title, each linked from the central genre node; nothing else.
C5_GenreFocusShape ==
  build.fn = "genre" =>
    LET n == graph.nodes
        l == graph.links
        name == trim(build.genreName)
        ctx == ContextNodes(graph)
        cen == CentralNodes(graph)
        sub == (1..Len(n)) \ (ctx \cup cen)
        isCtxLink(k) == \E i \in ctx, c \in cen :
                          l[k].source = n[i].id /\ l[k].target = n[c].id
        isSubLink(k) == \E c \in cen, i \in sub :
                          l[k].source = n[c].id /\ l[k].target = n[i].id
    IN  /\ Cardinality(ctx) = (IF build.sourceTrack # null THEN 1 ELSE 0)
        /\ \A i \in ctx : /\ n[i].type = "track"
                           /\ n[i].trackData = build.sourceTrack
                           /\ ~n[i].isCentral
        /\ Cardinality(cen) = 1
        /\ \A c \in cen : n[c].type = "genre" /\ n[c].label = name
        /\ \A i \in sub : n[i].type = "genre"
        /\ { n[i].label : i \in sub } = Elems(build.subgenres)
        /\ Cardinality(sub) = Cardinality(Elems(build.subgenres))
        /\ \A k \in 1..Len(l) : isCtxLink(k) \/ isSubLink(k)
        /\ Cardinality({ k \in 1..Len(l) : isCtxLink(k) }) = Cardinality(ctx)
        /\ \A i \in sub : \E k \in 1..Len(l) :
             \E c \in cen : l[k].source = n[c].id /\ l[k].target = n[i].id

C5_Witness ==
  /\ build.fn = "genre"
  /\ build.sourceTrack = Some(T2)
  /\ HasRepeat(build.subgenres)
  /\ NAME_jazz \in Elems(build.subgenres)
  /\ build.genreName = NAME_jazz
  /\ Len(graph.nodes) = 4

(* The values of s in the order of their first occurrence. *)
C31_Firsts(s) ==
  LET idx == { i \in 1..Len(s) : \A j \in 1..(i - 1) : s[j] # s[i] }
  IN  [k \in 1..Cardinality(idx) |->
         s[CHOOSE i \in idx : Cardinality({ j \in idx : j < i }) = k - 1]]

C31_Ids(nodes) == [i \in 1..Len(nodes) |-> nodes[i].id]
C31_Prefixed(prefix, s) == [i \in 1..Len(s) |-> prefix \o s[i]]
C31_Links(source, targets) ==
  [i \in 1..Len(targets) |-> [source |-> source, target |-> targets[i]]]

\* C31: graph determinism. A build from the inputs of the build before it
\* gives the same node sequence and the same link sequence; the focal and
\* context nodes come first and the tags or subgenres follow in input order
\* (a Track view: the track, then the distinct tags among the first 12 in
\* order of first occurrence, one link per tag in that order; a Genre-focus
\* view: the context track if any, the genre, then the distinct subgenre
\* titles in order of first occurrence, the context link and then one link per
\* title of the resolver's result in its order).
C31_GraphDeterminism ==
  /\ prevGraph # null => prevGraph[1] = graph
  /\ build.fn = "track" =>
       LET centralId == graph.nodes[1].id
           tagIds == C31_Prefixed(STR_TAG, C31_Firsts(slice(build.tags, 0, 12)))
       IN  /\ graph.nodes[1].isCentral
           /\ C31_Ids(graph.nodes) = << centralId >> \o tagIds
           /\ graph.links = C31_Links(centralId, tagIds)
  /\ build.fn = "genre" =>
       LET centralId == STR_GENRE \o trim(build.genreName)
           context == IF build.sourceTrack # null
                      THEN << STR_TRACK \o
                              (IF build.sourceTrack[1].trackId # << >>
                               THEN build.sourceTrack[1].trackId
                               ELSE build.sourceTrack[1].trackName \o STR_SEP
                                      \o build.sourceTrack[1].artistName) >>
                      ELSE << >>
       IN  /\ C31_Ids(graph.nodes) =
                context \o << centralId >>
                  \o C31_Prefixed(STR_SUBGENRE, C31_Firsts(build.subgenres))
           /\ graph.links =
                C31_Links(context[1], IF context # << >> THEN << centralId >> ELSE << >>)
                  \o C31_Links(centralId, C31_Prefixed(STR_SUBGENRE, build.subgenres))

C31_Witness ==
  /\ build.fn = "track"
  /\ build.tags = << TAG_grime, TAG_trap, TAG_grime >>
  /\ prevGraph # null
  /\ Len(graph.nodes) = 3
  /\ graph.nodes[2].label = TAG_grime

\* C32: at most one context node. Every built graph has at most one node with
\* isContext; a Track view has none; the context node is never the central
\* node.
C32_AtMostOneContext ==
  /\ Cardinality(ContextNodes(graph)) <= 1
  /\ build.fn = "track" => ContextNodes(graph) = {}
  /\ ContextNodes(graph) \cap CentralNodes(graph) = {}

C32_Witness ==
  /\ build.fn = "genre"
  /\ build.sourceTrack = Some(T1)
  /\ ContextNodes(graph) = {1}
  /\ CentralNodes(graph) = {2}
  /\ Len(graph.nodes) = 4

\* C38: no duplicate links. No built graph has two links with the same source
\* and target, whatever the tag list and the subgenre list (repeated entries
\* included); the number of links is the number of non-focal nodes.
C38_NoDuplicateLinks ==
  build.fn # "none" =>
    /\ \A j, k \in 1..Len(graph.links) :
         ( /\ graph.links[j].source = graph.links[k].source
           /\ graph.links[j].target = graph.links[k].target ) => j = k
    /\ Len(graph.links) = Len(graph.nodes) - 1

-----------------------------------------------------------------------------
(* Properties of the tag pipeline. *)
C7_Precedes(items, j, i) ==
  \/ items[j].count > items[i].count
  \/ items[j].count = items[i].count /\ j < i

C7_Rank(items, i) == Cardinality({ j \in 1..Len(items) : C7_Precedes(items, j, i) })

C7_Items(res) == IF res.status = "ok" THEN res.tag ELSE << >>

(* The tags of one provider list: top 12 by descending count, lower-cased and  *)
(* trimmed, the empty and the denylisted ones removed; each with its rank.     *)
C7_Kept(res) ==
  LET items == C7_Items(res)
  IN  { [tag |-> trim(toLowerCase(items[i].name)), rank |-> C7_Rank(items, i)] :
          i \in { j \in 1..Len(items) :
                    /\ C7_Rank(items, j) < 12
                    /\ trim(toLowerCase(items[j].name)) # << >>
                    /\ trim(toLowerCase(items[j].name)) \notin LASTFM_BANNED_TAGS } }

C7_Related(tag, artistName) ==
  tag = artistName \/ includes(tag, artistName) \/ includes(artistName, tag)

(* Where a tag first occurs: artist list before track list, then by rank. *)
C7_First(tag, keptA, keptT) ==
  IF \E k \in keptA : k.tag = tag
  THEN CHOOSE r \in 0..11 :
         /\ \E k \in keptA : k.tag = tag /\ k.rank = r
         /\ \A k \in keptA : k.tag = tag => k.rank >= r
  ELSE 12 + (CHOOSE r \in 0..11 :
               /\ \E k \in keptT : k.tag = tag /\ k.rank = r
               /\ \A k \in keptT : k.tag = tag => k.rank >= r)

\* C7: filter correctness on track selection. The tag list handed to the Track
\* view is, per provider list, the top 12 by descending count, lower-cased and
\* trimmed, without empty or denylisted tags, merged without duplicates, and
\* without any tag that equals, contains or is contained in the lower-cased
\* artist name; the example list for artist "Skepta" yields ["trap"] only.
C7_FilterCorrectness ==
  tagRun.pc = "done" =>
    LET track == tagRun.track[1]
        artistName == trim(toLowerCase(track.artistName))
        keptA == C7_Kept(tagRun.artistRes)
        keptT == C7_Kept(tagRun.trackRes)
        f == tagRun.filteredTags
    IN  /\ Elems(f) = { k.tag : k \in { x \in keptA \cup keptT :
                                           ~C7_Related(x.tag, artistName) } }
        /\ ~HasRepeat(f)
        /\ \A p, q \in 1..Len(f) :
             p < q => C7_First(f[p], keptA, keptT) < C7_First(f[q], keptA, keptT)
        /\ ( /\ track = T1
             /\ tagRun.artistRes = RES_example
             /\ tagRun.trackRes \in {RES_example, RES_throw, RES_http, RES_error} )
           => f = << TAG_trap >>

C7_Witness ==
  /\ tagRun.pc = "done"
  /\ tagRun.track = Some(T1)
  /\ tagRun.artistRes = RES_example
  /\ tagRun.trackRes = RES_unsorted
  /\ tagRun.filteredTags = << TAG_trap, TAG_grime, <<"f", "e", "t", "t", "y", " ", "w", "a", "p">> >>

(* An answer of the tag provider that carries no tag: a rejected fetch or      *)
(* json(), a status that is not ok, a body with an error code, a body that is  *)
(* malformed, or an empty list.                                                *)
C23_NoData(res) == res.status # "ok" \/ res.tag = << >>

\* C23: tag-provider failures are absorbed. Whatever the artist-tag and the
\* track-tag call got (transport error, non-success status, provider error,
\* malformed payload, empty result), the adapter of a call without data
\* returns the empty list, and the selection ends with a Track view drawn
\* whose first node is the central node of the selected track; with no data
\* from either call that node is the whole graph.
C23_TagFailuresAbsorbed ==
  tagRun.pc = "done" =>
    LET track == tagRun.track[1]
    IN  /\ C23_NoData(tagRun.artistRes) => tagRun.artistTags = << >>
        /\ C23_NoData(tagRun.trackRes) => tagRun.trackTags = << >>
        /\ build = TrackBuild(track, tagRun.filteredTags)
        /\ Len(graph.nodes) >= 1
        /\ graph.nodes[1].type = "track"
        /\ graph.nodes[1].isCentral
        /\ graph.nodes[1].trackData = Some(track)
        /\ (C23_NoData(tagRun.artistRes) /\ C23_NoData(tagRun.trackRes)) =>
              /\ Len(graph.nodes) = 1
              /\ graph.links = << >>

C23_Witness ==
  /\ tagRun.pc = "done"
  /\ tagRun.track = Some(T2)
  /\ tagRun.artistRes = RES_malformed
  /\ tagRun.trackRes = RES_http
  /\ build.fn = "track"
  /\ Len(graph.nodes) = 1
  /\ graph.nodes[1].isCentral

(* The first position of x in s. *)
C26_Index(s, x) == CHOOSE i \in 1..Len(s) : s[i] = x /\ \A j \in 1..(i - 1) : s[j] # x

\* C26: join before build. Both tag calls are in flight before either answer
\* is awaited, the Track view is drawn only when both have resolved, and the
\* tag list it is built from is the artist tags followed by the track tags not
\* already present, whichever call resolved first.
C26_JoinBeforeBuild ==
  /\ tagRun.pc = "await" =>
        /\ tagRun.pending \cup Elems(tagRun.order) = JoinCalls
        /\ tagRun.pending # {}
        /\ build = NoBuild
        /\ graph.nodes = << >>
  /\ tagRun.pc = "done" =>
        LET track == tagRun.track[1]
            artist == artistOf(track)
            artistTags == fetchArtistTopTags(artist, tagRun.artistRes, FETCH_LIMIT)
            trackTags == fetchTrackTopTags(artist, track.trackName, tagRun.trackRes,
                                           FETCH_LIMIT)
            merged == ArrayFromSet(artistTags \o trackTags)
        IN  /\ Elems(tagRun.order) = JoinCalls
            /\ tagRun.filteredTags = selectFilteredTags(artist, artistTags, trackTags)
            /\ \A p, q \in 1..Len(tagRun.filteredTags) :
                  p < q => C26_Index(merged, tagRun.filteredTags[p])
                             < C26_Index(merged, tagRun.filteredTags[q])
            /\ \A p \in 1..Len(artistTags), q \in 1..Len(merged) :
                  (merged[q] \notin Elems(artistTags)) =>
                    C26_Index(merged, artistTags[p]) < q
            /\ build = TrackBuild(track, tagRun.filteredTags)

C26_Witness ==
  /\ tagRun.pc = "done"
  /\ tagRun.order = << "track", "artist" >>
  /\ tagRun.track = Some(T1)
  /\ tagRun.artistRes = RES_shutdown
  /\ tagRun.trackRes = RES_example
  /\ tagRun.filteredTags = << TAG_grime, TAG_uk_rap, TAG_trap >>
  /\ build.fn = "track"

(* The labels of the tag nodes of a graph. *)
C40_TagLabels(g) == { g.nodes[i].label : i \in { j \in 1..Len(g.nodes) : g.nodes[j].type = "tag" } }

\* C40: chips and graph show the same tags. When the continuation of a track
\* selection has run, the set of tag chips in the detail panel equals the set
\* of tag node labels of the Track view, whatever the two provider answers.
C40_ChipsMatchGraph ==
  tagRun.pc = "done" => Elems(infoContent.chips) = C40_TagLabels(graph)

-----------------------------------------------------------------------------
(* Properties of the taxonomy resolver. *)
C10_AliasGroup(g) ==
  LET key == trim(toLowerCase(g))
  IN  IF \E e \in Elems(GENRE_TO_WIKI_CATEGORY) : e[1] = key
      THEN << (CHOOSE e \in Elems(GENRE_TO_WIKI_CATEGORY) : e[1] = key)[2] >>
      ELSE << >>

C10_VariantGroup(g) ==
  (IF " " \in Elems(g)
   THEN << replaceAll(g, " ", << "-" >>), replaceAll(g, " ", << >>) >>
   ELSE << >>)
    \o (IF "-" \in Elems(g)
        THEN << replaceAll(g, "-", << " " >>), replaceAll(g, "-", << >>) >>
        ELSE << >>)

C10_SpellingGroup(g) ==
  << g \o STR_MUSIC_GENRES, g \o STR_MUSIC, g, g \o STR_GENRES >>

C10_Expected(g) == C10_AliasGroup(g) \o C10_VariantGroup(g) \o C10_SpellingGroup(g)

C10_Titles(res) ==
  IF res.status = "ok" THEN SelectSeq(res.members, nonEmpty) ELSE << >>

C10_HipHopOrder ==
  << <<"H", "i", "p", " ", "h", "o", "p", " ", "m", "u", "s", "i", "c", " ", "g", "e", "n", "r", "e", "s">>,
     <<"h", "i", "p", " ", "h", "o", "p">>,
     <<"h", "i", "p", "h", "o", "p">>,
     <<"h", "i", "p", "-", "h", "o", "p", " ", "m", "u", "s", "i", "c", " ", "g", "e", "n", "r", "e", "s">>,
     <<"h", "i", "p", "-", "h", "o", "p", " ", "m", "u", "s", "i", "c">>,
     <<"h", "i", "p", "-", "h", "o", "p">>,
     <<"h", "i", "p", "-", "h", "o", "p", " ", "g", "e", "n", "r", "e", "s">> >>

\* C10: taxonomy fallback order. The resolver queries the alias-table category
\* of the lower-cased, trimmed name first (when there is one), then the
\* space/hyphen variants of the raw name, then the suffixed and raw spellings,
\* one query at a time in that order; it returns the titles of the first
\* candidate whose titles are non-empty, unmodified, and queries no candidate
\* after it.
C10_FallbackOrder ==
  (resolver.pc \in {"await", "done"} /\ resolver.genreName # << >>) =>
    LET g == resolver.genreName
        exp == C10_Expected(g)
        q == resolver.queried
        a == resolver.answers
    IN  /\ Len(q) >= 1 /\ Len(q) <= Len(exp)
        /\ q = SubSeq(exp, 1, Len(q))
        /\ g = NAME_hip_hop => q = SubSeq(C10_HipHopOrder, 1, Len(q))
        /\ Len(a) = (IF resolver.pc = "await" THEN Len(q) - 1 ELSE Len(q))
        /\ \A k \in 1..Len(a) : k < Len(q) => C10_Titles(a[k]) = << >>
        /\ resolver.pc = "done" =>
             \/ /\ resolver.result # << >>
                /\ resolver.result = C10_Titles(a[Len(a)])
             \/ /\ resolver.result = << >>
                /\ q = exp
                /\ C10_Titles(a[Len(a)]) = << >>

C10_Witness ==
  /\ resolver.pc = "done"
  /\ resolver.genreName = NAME_hip_hop
  /\ Len(resolver.queried) = 3
  /\ resolver.answers[1] = CAT_http
  /\ resolver.answers[2] = CAT_untitled
  /\ resolver.result = << TITLE_Trap_music, TITLE_Drill_music >>

\* C12: taxonomy resolver determinism. The category titles a resolution
\* queried are an initial part of one list that is a function of the input
\* name alone (alias category, variants, spellings), whatever the current
\* track, the cache contents and the answers of earlier resolutions; so two
\* resolutions of the same name try the same candidates in the same order.
C12_ResolverDeterminism ==
  last.queried # << >> =>
    LET exp == C10_Expected(trim(last.genreName))
    IN  /\ Len(last.queried) <= Len(exp)
        /\ last.queried = SubSeq(exp, 1, Len(last.queried))

C12_Witness ==
  /\ last.kind = "genre"
  /\ last.genreName = TAG_trap
  /\ Len(last.queried) = 2
  /\ TAG_trap \in DOMAIN wikiCache
  /\ currentTrack = Some(T2)
  /\ last.sourceTrack = null

C11_Failed(res) ==
  \/ res.status = "throw"
  \/ res.status = "http"
  \/ res.status = "ok" /\ Len(res.members) = 0

\* C11: taxonomy resolver failure handling. No exception leaves the resolver;
\* for an empty name it returns the empty list without a query; a candidate
\* whose provider call throws, answers with a non-success status or has zero
\* members is skipped and the next candidate is queried; when every candidate
\* fails so, the resolver has queried all of them and returns the empty list.
C11_ResolverFailureHandling ==
  LET g == resolver.genreName
      exp == C10_Expected(g)
      q == resolver.queried
      a == resolver.answers
  IN  /\ resolver.pc # "threw"
      /\ (resolver.pc = "done" /\ g = << >>) =>
            resolver.result = << >> /\ q = << >> /\ a = << >>
      /\ (resolver.pc \in {"await", "done"} /\ g # << >>) =>
            /\ \A k \in 1..Len(a) :
                 (C11_Failed(a[k]) /\ k < Len(exp)) =>
                    Len(q) >= k + 1 /\ q[k + 1] = exp[k + 1]
            /\ (resolver.pc = "done" /\ \A k \in 1..Len(a) : C11_Failed(a[k])) =>
                 resolver.result = << >> /\ Len(a) = Len(exp) /\ q = exp

C11_Witness ==
  /\ resolver.pc = "done"
  /\ resolver.genreName = NAME_hip_hop
  /\ Len(resolver.answers) = 7
  /\ resolver.answers[1] = CAT_throw
  /\ resolver.answers[2] = CAT_http
  /\ resolver.answers[3] = CAT_empty
  /\ \A k \in 1..7 : C11_Failed(resolver.answers[k])
  /\ resolver.result = << >>

\* C33: no retry. One run of the resolver issues at most 9 category queries,
\* and no query is issued twice within the run.
C33_NoRepeatedCall ==
  /\ Len(resolver.queried) <= 9
  /\ ~HasRepeat(resolver.queried)

-----------------------------------------------------------------------------
(* Properties of navigation. *)
C6_EmptyFocus(b) == b.fn = "genre" /\ b.sourceTrack = null /\ b.subgenres = << >>

C6_SummaryText(wiki) ==
  IF wiki # null /\ wiki[1].extract # << >> THEN wiki[1].extract ELSE STR_NO_SUMMARY

\* C6: empty taxonomy is a displayed outcome. A genre-focus build with no
\* context track and an empty resolver result (no members, or every query
\* failed) shows exactly one node, the central genre, and no link; the function
\* then still looks up the summary of that genre, and when it returns the panel
\* shows the summary found, or 'No summary found.' when there is none.
C6_EmptyTaxonomyDisplayed ==
  /\ C6_EmptyFocus(build) =>
        /\ Len(graph.nodes) = 1
        /\ graph.nodes[1].id = STR_GENRE \o trim(build.genreName)
        /\ graph.nodes[1].type = "genre"
        /\ graph.nodes[1].isCentral
        /\ graph.links = << >>
  /\ (last.kind = "genre" /\ last.sourceTrack = null /\ last.subgenres = << >>) =>
        IF last.pc = "summary"
        THEN /\ C6_EmptyFocus(build)
             /\ \E k \in 1..Len(ops) :
                  /\ ops[k].kind = "genre"
                  /\ ops[k].pc = "summary"
                  /\ ops[k].genreName = last.genreName
        ELSE /\ infoContent.kind = "summary"
             /\ infoContent.extract = C6_SummaryText(last.wiki)

C6_Witness ==
  /\ C6_EmptyFocus(build)
  /\ Len(graph.nodes) = 1
  /\ last.kind = "genre"
  /\ last.pc = "done"
  /\ last.genreName = build.genreName
  /\ last.sourceTrack = null
  /\ last.subgenres = << >>
  /\ last.wiki = null
  /\ infoContent.extract = STR_NO_SUMMARY

\* C13: selectTrack sets the navigation context atomically. In every state
\* another handler can observe, currentTrack and currentTrackHTML are both
\* null, or currentTrackHTML is the markup of the panel that the selection of
\* currentTrack wrote.
C13_ContextAtomic ==
  \/ currentTrack = null /\ currentTrackHTML = null
  \/ /\ currentTrack # null
     /\ currentTrackHTML # null
     /\ currentTrackHTML[1].track = currentTrack
     /\ currentTrackHTML[1] = innerHTML(trackInfoPanel(currentTrack[1]))

C13_Witness ==
  /\ currentTrack = Some(T2)
  /\ currentTrackHTML # null
  /\ currentTrackHTML[1].track = Some(T2)
  /\ firstSel = null
  /\ \E k \in 1..Len(ops) : ops[k].kind = "select" /\ ops[k].track = Some(T1)

C14_Central(g, genreName) ==
  { n \in 1..Len(g.nodes) : g.nodes[n].id = STR_GENRE \o trim(genreName) }

\* C14: clicking a tag node starts a genre-focus build for the tag's label,
\* with the value of currentTrack at the click as context track and with the
\* preserve-tag-colour option; when that build renders, its central genre node
\* carries the flag and its context track node is that track, also when
\* another track has been selected since the click.
C14_TagClickStartsFocus ==
  /\ last.kind = "clickTag" =>
        LET op == ops[Len(ops)]
        IN  /\ last.node = STR_TAG \o last.genreName
            /\ op.kind = "genre"
            /\ op.pc = "subgenres"
            /\ op.genreName = last.genreName
            /\ op.sourceTrack = currentTrack
            /\ op.options.preserveTagColor
  /\ (last.kind = "genre" /\ last.queried # << >> /\ build.options.preserveTagColor) =>
        /\ \E n \in C14_Central(graph, build.genreName) :
             /\ graph.nodes[n].isCentral
             /\ graph.nodes[n].preserveTagColor
        /\ build.sourceTrack # null =>
             \E n \in 1..Len(graph.nodes) :
               /\ graph.nodes[n].isContext
               /\ graph.nodes[n].trackData = build.sourceTrack

C14_Witness ==
  /\ last.kind = "genre"
  /\ last.queried # << >>
  /\ build.genreName = TAG_trap
  /\ build.options.preserveTagColor
  /\ build.sourceTrack = Some(T1)
  /\ currentTrack = Some(T2)
  /\ \E n \in 1..Len(graph.nodes) :
       graph.nodes[n].isContext /\ graph.nodes[n].trackData = Some(T1)

\* C15: clicking a genre or subgenre node starts a genre-focus build for the
\* node's label, without the preserve-colour option and with currentTrack as
\* context track whenever currentTrack is set, so that the graph the build
\* renders contains the context track node.
C15_GenreClickKeepsContext ==
  /\ last.kind = "clickGenre" =>
        LET op == ops[Len(ops)]
        IN  /\ op.kind = "genre"
            /\ op.genreName = last.genreName
            /\ ~op.options.preserveTagColor
            /\ op.sourceTrack = currentTrack
  /\ ( /\ last.kind = "genre"
       /\ last.queried # << >>
       /\ ~build.options.preserveTagColor
       /\ currentTrack # null )
     => \E n \in 1..Len(graph.nodes) : graph.nodes[n].isContext

C16_Static(panel) == [panel EXCEPT !.chips = << >>, !.wired = FALSE]

C17_Selection ==
  \E track \in Tracks :
    /\ currentTrack' = Some(track)
    /\ currentTrackHTML' = Some(innerHTML(trackInfoPanel(track)))
    /\ ops' = Append(ops, tagFetchOp("select", track))
    /\ clicks' = clicks + 1

\* C17: frame of the navigation context. currentTrack and the panel snapshot
\* change only in a step that selects a track; every other step (a click on a
\* tag, genre or track node, a chip click, a hover or leave, back, the
\* continuation of any build or lookup) leaves both as they were.
C17_ContextFrame ==
  [][ (currentTrack' # currentTrack \/ currentTrackHTML' # currentTrackHTML)
        => C17_Selection ]_vars

C17_Witness ==
  /\ last.kind = "hover"
  /\ last.pc = "done"
  /\ build.fn = "genre"
  /\ infoContent.kind # "trackInfo"
  /\ currentTrack = Some(T1)
  /\ currentTrackHTML = Some(innerHTML(trackInfoPanel(T1)))

\* C18: selecting a new track discards any prior genre-focus excursion. When a
\* track was selected while genre-focus builds (and nothing else) were still
\* awaiting their provider calls, nothing was clicked since, and every
\* operation in flight has settled, the graph shown is the Track view of the
\* selected track and the panel is that track's.
C18_SelectionDiscardsExcursion ==
  ( /\ selection.at > 0
    /\ selection.at = clicks
    /\ selection.inFlight # << >>
    /\ \A k \in 1..Len(selection.inFlight) : selection.inFlight[k] = "genre"
    /\ ops = << >> )
  => /\ build.fn = "track"
     /\ build.track = currentTrack
     /\ infoContent.kind = "trackInfo"
     /\ infoContent.track = currentTrack

(* What the continuation that ran in the step just taken wrote. *)
C19_Rendered ==
  /\ (last.pc = "done" /\ last.kind \in {"select", "trackNode", "back"}) =>
        LET track == IF last.kind = "back" THEN currentTrack[1] ELSE last.track[1]
            g == buildTrackGenreGraph(track, last.tags)
            r == renderGraph(g.nodes, g.links, g.title)
        IN  /\ build = TrackBuild(track, last.tags)
            /\ graph = r.graph
            /\ mapTitle = r.mapTitle
            /\ (last.kind # "trackNode" /\ last.tags # << >>) =>
                  infoContent.chips = last.tags
  /\ (last.kind = "genre" /\ last.queried # << >>) =>
        LET g == buildGenreFocusGraph(last.genreName, last.sourceTrack,
                                      build.options, last.subgenres)
            r == renderGraph(g.nodes, g.links, g.title)
        IN  /\ build = GenreBuild(last.genreName, last.sourceTrack, build.options,
                                  last.subgenres)
            /\ graph = r.graph
            /\ mapTitle = r.mapTitle
            /\ infoTitle = trim(last.genreName)
  /\ (last.kind = "genre" /\ last.pc = "done") =>
        infoContent = genreSummaryPanel(trim(last.genreName), last.wiki,
                                        last.subgenres, currentTrack, currentTrackHTML)
  /\ (last.kind = "chip" /\ last.pc = "done") =>
        infoContent = chipSummaryPanel(last.genreName, last.wiki)

(* A click cancels nothing, and an operation leaves the ones in flight only by *)
(* running its own continuation.                                               *)
C19_NoCancel ==
  /\ clicks' # clicks =>
        /\ Len(ops') >= Len(ops)
        /\ SubSeq(ops', 1, Len(ops)) = ops
  /\ Len(ops') < Len(ops) =>
        /\ last'.pc = "done"
        /\ \E k \in 1..Len(ops) : ops' = RemoveAt(ops, k) /\ ops[k].kind = last'.kind

\* C19: last writer wins between overlapping rebuilds. A rebuild triggered
\* while another is awaiting its answers cancels nothing; each continuation,
\* whenever it runs, writes its own graph and panel content over what is
\* shown, so the one that resolves last has the final write.
C19_LastWriterWins == [](C19_Rendered) /\ [][C19_NoCancel]_vars

C19_Witness ==
  /\ selection.inFlight = << "select" >>
  /\ selection.at = clicks
  /\ currentTrack = Some(T2)
  /\ firstSel # null
  /\ firstSel[1].track = T2
  /\ ops = << >>
  /\ last.kind = "select"
  /\ last.track = Some(T1)
  /\ build.fn = "track"
  /\ build.track = Some(T1)
  /\ graph.nodes[1].trackData = Some(T1)

(* The cache key of the summary lookup whose return the last step handled. *)
C20_Key == IF last.kind = "genre" THEN trim(last.genreName) ELSE last.genreName

(* The last step handled a summary lookup that returned null. *)
C20_ReturnedNull ==
  /\ last.pc = "done"
  /\ last.kind \in {"genre", "chip", "hover"}
  /\ last.wiki = null

\* C20 as stated: when a summary lookup has returned null for a name, the cache
\* has no entry for that name.
C20_FailedLookupNotCached == C20_ReturnedNull => C20_Key \notin DOMAIN wikiCache

(* A lookup started for a name without an entry has its provider calls in      *)
(* flight.                                                                     *)
C20_MissIssuesCalls ==
  /\ (last.kind = "hover" /\ last.pc = "click"
        /\ last.genreName \notin DOMAIN wikiCache) =>
        /\ ops # << >>
        /\ ops[Len(ops)] = hoverOp(last.genreName)
  /\ (last.kind = "genre" /\ last.queried # << >>
        /\ trim(last.genreName) \notin DOMAIN wikiCache) =>
        /\ last.pc = "summary"
        /\ \E k \in 1..Len(ops) :
              /\ ops[k].kind = "genre"
              /\ ops[k].pc = "summary"
              /\ ops[k].genreName = last.genreName

(* The return of null leaves the cache as it was. *)
C20_NullReturnStep ==
  (ops' # ops /\ last'.pc = "done" /\ last'.kind \in {"genre", "chip", "hover"}
     /\ last'.wiki = null)
  => wikiCache' = wikiCache

\* C20 amended: a summary lookup that returns null writes nothing to the cache,
\* so a name that had no entry still has none (an entry can only come from
\* another lookup of the name that found a page), and a lookup started while
\* the name has no entry issues provider calls again.
C20_FailedLookupWritesNothing == [](C20_MissIssuesCalls) /\ [][C20_NullReturnStep]_vars

C20_Witness ==
  /\ TAG_trap \in failed
  /\ TAG_trap \notin DOMAIN wikiCache
  /\ last.kind = "hover"
  /\ last.pc = "click"
  /\ last.genreName = TAG_trap
  /\ ops = << hoverOp(TAG_trap) >>

\* C21: summary cache entries are written once and never refreshed. No step,
\* whatever lookups are in flight, changes or removes an entry the cache
\* already holds.
C21_CacheWriteOnce ==
  [][ \A name \in DOMAIN wikiCache :
        /\ name \in DOMAIN wikiCache'
        /\ wikiCache'[name] = wikiCache[name] ]_vars

\* C25: placeholder marking. When a genre-focus build has settled and its
\* graph is the one shown, the central genre node is marked isPlaceholder on
\* the render surface exactly when neither a summary nor any taxonomy entry
\* was resolved for it.
C25_PlaceholderMarking ==
  ( /\ last.kind = "genre"
    /\ last.pc = "done"
    /\ build = GenreBuild(last.genreName, last.sourceTrack, build.options,
                          last.subgenres) )
  => \A n \in 1..Len(graph.nodes) :
       graph.nodes[n].isCentral =>
         (dataPlaceholder(graph.nodes[n])
            <=> (last.wiki = null /\ last.subgenres = << >>))

\* C27: never-resolving provider call. When a genre-focus rebuild has just
\* issued a provider call (the taxonomy lookup at the click, the summary lookup
\* when the taxonomy lookup returned) and nothing else is in flight, the panel
\* shows the loading state; if the call never resolves and nothing is clicked,
\* the machine stays in this state, so the panel shows it from then on.
C27_NeverResolving ==
  ( /\ Len(ops) = 1
    /\ ops[1].kind = "genre"
    /\ \/ last.kind \in {"clickTag", "clickGenre"} /\ last.pc = "click"
       \/ last.kind = "genre" /\ last.pc = "summary" )
  => infoContent = loadingPanel

\* C28: one level of back navigation. Whatever genre and subgenre nodes were
\* clicked to reach the view, the click on the back button puts the panel of
\* currentTrack back, and the rebuild it starts ends with the Track view of
\* currentTrack on the render surface, with no genre node in it.
C28_OneLevelBack ==
  /\ last.kind = "clickBack" =>
        /\ infoContent.kind = "trackInfo"
        /\ infoContent.track = currentTrack
  /\ (last.kind = "back" /\ last.pc = "done") =>
        /\ build = TrackBuild(currentTrack[1], last.tags)
        /\ graph.nodes[1].type = "track"
        /\ graph.nodes[1].isCentral
        /\ graph.nodes[1].trackData = currentTrack
        /\ \A n \in 1..Len(graph.nodes) : graph.nodes[n].type # "genre"

C28_Witness ==
  /\ last.kind = "back"
  /\ last.pc = "done"
  /\ clicks = 4
  /\ selection.at = 1
  /\ currentTrack = Some(T1)
  /\ TITLE_Drill_music \in DOMAIN wikiCache
  /\ build.fn = "track"
  /\ ops = << >>

\* C34: back is always offered after a genre focus settles. When a track is
\* selected and the step just taken resolved the last provider call of a
\* genre-focus excursion (the build's summary lookup, or the chip handler's
\* own), with nothing else in flight, the detail panel holds the back button
\* and the button has its listener.
C34_BackOfferedAfterFocus ==
  ( /\ currentTrack # null
    /\ ops = << >>
    /\ last.pc = "done"
    /\ last.kind \in {"genre", "chip"} )
  => (infoContent.back /\ infoContent.wired)

(* The focal node of the graph shown. *)
C35_Focal == graph.nodes[CHOOSE i \in CentralNodes(graph) : TRUE]

\* C35: graph and panel agree once quiescent. When a graph has been built and
\* no provider call is in flight, the focal node of the graph, the map title
\* and the detail panel refer to the same entity (a track: the panel shows that
\* track; a genre: the panel shows a summary under that genre's name), and the
\* central track of a Track view is currentTrack.
C35_QuiescentAgreement ==
  (ops = << >> /\ build.fn # "none") =>
    LET c == C35_Focal
    IN  /\ c.type = "track" =>
             /\ c.trackData = currentTrack
             /\ mapTitle = STR_TRACK_TITLE \o c.trackData[1].trackName \o STR_DASH
                             \o c.trackData[1].artistName
             /\ infoContent.track = c.trackData
        /\ c.type = "genre" =>
             /\ \/ mapTitle = STR_GENRE_TITLE \o c.label
                \/ \E t \in Tracks : mapTitle = t.trackName \o STR_ARROW \o c.label
             /\ infoContent.kind = "summary"
             /\ infoTitle = c.label

\* C36: the back target matches the shown context. Whenever a genre-focus
\* graph with a context track node is shown while the panel holds the wired
\* back button, the track the back listener would restore (currentTrack) is
\* the track of the context node.
C36_BackTargetIsContext ==
  ( /\ build.fn = "genre"
    /\ ContextNodes(graph) # {}
    /\ infoContent.back
    /\ infoContent.wired )
  => \A i \in ContextNodes(graph) : graph.nodes[i].trackData = currentTrack

(* A step in which buildGenreFocusGraph was called (from a tag node, a genre   *)
(* node or a chip) and ran up to its first await.                              *)
C37_FocusStarts ==
  \E k \in 1..Len(ops') :
    /\ k > Len(ops)
    /\ ops'[k].kind = "genre"
    /\ ops'[k].pc = "subgenres"

C37_HasContext(track, trackHTML) == track # null /\ trackHTML # null

C37_StartStep ==
  C37_FocusStarts =>
    /\ C37_HasContext(currentTrack, currentTrackHTML)
    /\ C37_HasContext(currentTrack', currentTrackHTML')

(* Wherever a genre-focus build stands or the back button is wired, there is   *)
(* a track and a snapshot to restore.                                          *)
C37_SnapshotToRestore ==
  ( \/ \E k \in 1..Len(ops) : ops[k].kind = "genre"
    \/ build.fn = "genre"
    \/ infoContent.wired )
  => C37_HasContext(currentTrack, currentTrackHTML)

\* C37: genre focus is never entered before a track is selected. In every step
\* that starts a genre-focus build (from a tag node, a genre node or a chip)
\* currentTrack and the panel snapshot are non-null, and they stay so while the
\* build runs, after it, and whenever the back button has its listener.
C37_FocusAfterSelection == [](C37_SnapshotToRestore) /\ [][C37_StartStep]_vars

C37_Witness ==
  /\ last.pc = "click"
  /\ last.kind = "clickGenre"
  /\ \E k \in 1..Len(ops) : ops[k].kind = "genre" /\ ops[k].pc = "subgenres"
  /\ infoContent.back
  /\ infoContent.wired
  /\ clicks = 4

\* C39: the render surface never receives an empty graph. Every graph a
\* builder has handed to renderGraph holds at least its focal node, so the
\* branch of renderGraph for an empty node list (which clears the surface and
\* sets the title to its no-nodes text) is never taken.
C39_NeverEmptyGraph ==
  /\ mapTitle # STR_NO_NODES
  /\ build.fn # "none" =>
       /\ Len(graph.nodes) >= 1
       /\ CentralNodes(graph) # {}
  /\ prevGraph # null => Len(prevGraph[1].nodes) >= 1

C39_Witness ==
  /\ last.kind = "select"
  /\ last.pc = "done"
  /\ last.tags = << >>
  /\ build = TrackBuild(T2, << >>)
  /\ Len(graph.nodes) = 1
  /\ graph.links = << >>

\* C8: self-artist removal on every path that builds a Track view. Whichever
\* handler built the Track view shown (selection, back button, click on a track
\* node), no tag node's label equals, contains or is contained in the
\* lower-cased artist name of the view's track.
C8_SelfArtistRemoval ==
  build.fn = "track" =>
    \A n \in 1..Len(graph.nodes) :
      graph.nodes[n].type = "tag" =>
        ~C7_Related(graph.nodes[n].label, toLowerCase(artistOf(build.track[1])))

\* C9: back re-derivation applies the rules of selection. When the back
\* listener has rebuilt the view of a track from the same artist-tag and
\* track-tag answers as the first selection of that track got, its tag list and
\* the graph shown equal those of that first selection.
C9_BackRederivation ==
  ( /\ last.kind = "back"
    /\ firstSel # null
    /\ firstSel[1].track = last.track[1]
    /\ firstSel[1].artistRes = last.artistRes
    /\ firstSel[1].trackRes = last.trackRes )
  => /\ last.tags = firstSel[1].tags
     /\ graph = firstSel[1].graph

====
